---- MODULE Spec2Model ----
(***************************************************************************)
(* Model of the newsletter-builder storage layer (utils/storage.py):       *)
(* the filename and path sanitizers, LocalStorage's safe join and file     *)
(* resolution, LocalStorage upload, delete, save and list_files on a       *)
(* directory tree, and the StorageManager facade in front of them.         *)
(*                                                                         *)
(* A string is a sequence of one-character strings.  Characters that only  *)
(* arise from percent-decoding are written as tokens: "<00>", "<02>"       *)
(* and so on are the control characters U+0000, U+0002, ..., and "<FFFD>"  *)
(* is the replacement character that bytes.decode('utf-8', 'replace')      *)
(* yields for a byte that is no UTF-8.  (Percent escapes that spell a      *)
(* multi-byte UTF-8 sequence occur in none of the model's inputs.)         *)
(***************************************************************************)
EXTENDS Integers, Sequences, FiniteSets, TLC

VARIABLES
    raw,        \* sanitizer run: the filename handed to sanitize_filename
    once,       \* sanitizer run: sanitize_filename(raw)
    twice,      \* sanitizer run: sanitize_filename(once)
    spc,        \* sanitizer run: position, "start" | "once" | "twice"
    rel,        \* safe-join run: the relative path handed to _safe_join
    joined,     \* safe-join run: what _safe_join did with rel
    jpc,        \* safe-join run: position, "start" | "done"
    files,      \* storage: the files under the root, relative path -> content, ctime
    dirs,       \* storage: the directories under the root (<<>> is the root itself)
    today,      \* storage: the current date, as far as upload reads it
    clock,      \* storage: the current time, in ticks
    listCalls,  \* storage: the backend list_files calls made so far
    ops,        \* storage: the StorageManager calls made so far
    last,       \* storage: the latest StorageManager call and what it returned
    prev,       \* storage: the StorageManager call before the latest
    known,      \* storage: the values of the string functions, computed once
    lprefix,    \* listing run: the prefix handed to LocalStorage.list_files
    lfound,     \* listing run: the public_ids list_files reported
    lpc,        \* listing run: position, "start" | "done"
    resources,  \* cloud: the raw resources the remote service holds, by public_id
    cnow,       \* cloud: the current time, in ticks
    cops,       \* cloud: the CloudinaryStorage calls made so far
    clast,      \* cloud: the latest CloudinaryStorage call and what it returned
    token,      \* conversion: PDFService.browserless_token
    html,       \* conversion: the HTML content to convert, as a sequence of tags
    sent,       \* conversion: the HTML posted to the screenshot service
    reply,      \* conversion: what the screenshot service answered
    screenshot, \* conversion: the local variable screenshot
    posts,      \* conversion: the requests.post calls made so far
    launches,   \* conversion: the browsers launched through Playwright so far
    composes,   \* conversion: the _compose_pdf calls made so far
    ended,      \* conversion: "none" | "pdf" | "error"
    cpc,        \* conversion: position, "start" | "in_flight" | "answered" | "done"
    request,    \* composition: the options and the image handed to the compositor
    page,       \* composition: what _compose_pdf computed
    ppc,        \* composition: position, "start" | "done"
    value,      \* colour run: the value handed to _parse_color
    rgb,        \* colour run: what _parse_color returned
    kpc,        \* colour run: position, "start" | "done"
    resp,       \* routes: the latest request and the response to it
    backendUploads, \* routes: the backend upload calls made so far
    served,     \* routes: the requests served so far
    pathId,     \* path run: the file id handed to sanitize_relative_path
    pathClean,  \* path run: what sanitize_relative_path returned
    pathPc,     \* path run: position, "start" | "done"
    tree,       \* cleanup: the names of the files in the scanned directory
    treeBefore, \* cleanup: the names there when the dry run started
    pending,    \* cleanup: the names os.walk listed and the loop has yet to visit
    stats,      \* cleanup: the statistics of the run under way
    dryStats,   \* cleanup: the statistics the dry run returned
    phase       \* cleanup: "dry" | "live" | "done"

sanitizeVars == <<raw, once, twice, spc>>

joinVars == <<rel, joined, jpc>>

storageVars == <<files, dirs, today, clock, listCalls, ops, last, prev, known>>

listVars == <<lprefix, lfound, lpc>>

\* the variables of the runs other than sanitizer, safe-join and storage runs
cloudVars == <<resources, cnow, cops, clast>>

convertVars == <<token, html, sent, reply, screenshot, posts, launches, composes,
                 ended, cpc>>

composeVars == <<request, page, ppc>>

colourVars == <<value, rgb, kpc>>

\* the variables of the colour, route, path and cleanup runs
routeVars == <<resp, backendUploads, served>>

pathVars == <<pathId, pathClean, pathPc>>

cleanupVars == <<tree, treeBefore, pending, stats, dryStats, phase>>

restVars == <<colourVars, routeVars, pathVars, cleanupVars>>

laterVars == <<listVars, cloudVars, convertVars, composeVars, restVars>>

vars == <<sanitizeVars, joinVars, storageVars, laterVars>>

(***************************************************************************)
(* Bounds of the model.                                                    *)
(***************************************************************************)
\* longest filename handed to the sanitizer
MaxLen == 4

\* longest relative path handed to _safe_join
MaxRel == 5

\* StorageManager calls in one run
MaxOps == 2

\* seconds in one tick of the clock
TickSeconds == 60

(***************************************************************************)
(* Characters.                                                             *)
(***************************************************************************)
\* the characters filenames are drawn from
Alphabet == {"x", "F", ".", " ", "%", "/", "\\", "2", "0", "5"}

Strings(n) == UNION {[1..k -> Alphabet] : k \in 0..n}

Digits == {"0", "2", "4", "5"}

UpperLetters == {"B", "C", "D", "E", "F", "J", "P", "R", "U"}

LowerLetters ==
    {"a", "b", "c", "d", "e", "f", "h", "j", "l", "m", "n", "o", "p", "r", "s",
     "t", "u", "w", "x", "y"}

\* string.hexdigits, as far as the model's characters go
IsHex(c) == c \in {"0", "2", "4", "5", "B", "C", "D", "E", "F", "a", "b", "c", "d", "e", "f"}

HexVal(c) ==
    CASE c = "0" -> 0 [] c = "2" -> 2 [] c = "4" -> 4 [] c = "5" -> 5
      [] c \in {"a"} -> 10 [] c \in {"B", "b"} -> 11 [] c \in {"C", "c"} -> 12
      [] c \in {"D", "d"} -> 13 [] c \in {"E", "e"} -> 14 [] OTHER -> 15

\* the character of one decoded byte, for the bytes below 0x80 that the
\* model's hex digits can spell; a byte from 0x80 on standing alone is no
\* UTF-8 and decodes to U+FFFD
ByteChar(b) ==
    CASE b = 0 -> "<00>" [] b = 2 -> "<02>" [] b = 4 -> "<04>" [] b = 5 -> "<05>"
      [] b = 10 -> "<0A>" [] b = 11 -> "<0B>" [] b = 12 -> "<0C>" [] b = 13 -> "<0D>"
      [] b = 14 -> "<0E>" [] b = 15 -> "<0F>"
      [] b = 32 -> " " [] b = 34 -> "\"" [] b = 36 -> "$" [] b = 37 -> "%"
      [] b = 42 -> "*" [] b = 43 -> "+" [] b = 44 -> "," [] b = 45 -> "-"
      [] b = 46 -> "." [] b = 47 -> "/"
      [] b = 64 -> "@" [] b = 66 -> "B" [] b = 68 -> "D" [] b = 69 -> "E"
      [] b = 74 -> "J" [] b = 75 -> "K" [] b = 76 -> "L" [] b = 77 -> "M"
      [] b = 78 -> "N" [] b = 79 -> "O"
      [] b = 80 -> "P" [] b = 82 -> "R" [] b = 84 -> "T" [] b = 85 -> "U"
      [] b = 90 -> "Z" [] b = 91 -> "[" [] b = 92 -> "\\" [] b = 93 -> "]"
      [] b = 94 -> "^" [] b = 95 -> "_"
      [] OTHER -> "<FFFD>"

\* str.lower on one character
Lower(c) ==
    CASE c = "B" -> "b" [] c = "C" -> "c" [] c = "D" -> "d" [] c = "E" -> "e"
      [] c = "F" -> "f" [] c = "J" -> "j" [] c = "K" -> "k" [] c = "L" -> "l"
      [] c = "M" -> "m" [] c = "N" -> "n" [] c = "O" -> "o" [] c = "P" -> "p"
      [] c = "R" -> "r" [] c = "T" -> "t" [] c = "U" -> "u" [] c = "Z" -> "z"
      [] OTHER -> c

\* str.isalnum on one character
IsAlnum(c) ==
    c \in Digits \cup UpperLetters \cup LowerLetters
           \cup {"K", "L", "M", "N", "O", "T", "Z", "k", "z"}

\* str.isspace on one character: the space and, of the control characters,
\* line feed, vertical tab, form feed and carriage return
IsSpace(c) == c \in {" ", "<0A>", "<0B>", "<0C>", "<0D>"}

\* the characters FILENAME_ALLOWED_PATTERN leaves alone: A-Za-z0-9, space, _ . -
FilenameAllowed(c) == IsAlnum(c) \/ c \in {" ", "_", ".", "-"}

\* the characters FOLDER_NAME_PATTERN leaves alone: A-Za-z0-9, space, _ -
FolderAllowed(c) == IsAlnum(c) \/ c \in {" ", "_", "-"}

DEFAULT_BASENAME == <<"n", "e", "w", "s", "l", "e", "t", "t", "e", "r">>

DEFAULT_EXTENSION == <<".", "h", "t", "m", "l">>

\* sanitized[:255]
MaxNameChars == 255

(***************************************************************************)
(* String helpers, as the Python library computes them.                    *)
(***************************************************************************)
\* urllib.parse.unquote: one pass, "%" followed by two hex digits is a byte
RECURSIVE unquote(_)
unquote(s) ==
    IF s = <<>> THEN <<>>
    ELSE IF s[1] = "%" /\ Len(s) >= 3 /\ IsHex(s[2]) /\ IsHex(s[3])
         THEN <<ByteChar(16 * HexVal(s[2]) + HexVal(s[3]))>>
                  \o unquote(SubSeq(s, 4, Len(s)))
         ELSE <<s[1]>> \o unquote(Tail(s))

\* str.replace(a, b) for single characters a and b
ReplaceChar(s, a, b) == [i \in 1..Len(s) |-> IF s[i] = a THEN b ELSE s[i]]

RECURSIVE RFindFrom(_, _, _)
RFindFrom(s, c, i) ==
    IF i = 0 THEN 0 ELSE IF s[i] = c THEN i ELSE RFindFrom(s, c, i - 1)

\* str.rfind(c), 1-based, 0 when c does not occur
RFind(s, c) == RFindFrom(s, c, Len(s))

\* a basename that takes the whole path
basename_whole(s) == s

\* os.path.basename: what follows the last "/"
basename(s) == SubSeq(s, RFind(s, "/") + 1, Len(s))

RECURSIVE LStrip(_)
LStrip(s) == IF s # <<>> /\ IsSpace(s[1]) THEN LStrip(Tail(s)) ELSE s

RECURSIVE RStrip(_)
RStrip(s) ==
    IF s # <<>> /\ IsSpace(s[Len(s)]) THEN RStrip(SubSeq(s, 1, Len(s) - 1)) ELSE s

\* str.strip()
Strip(s) == RStrip(LStrip(s))

\* str.lstrip('.')
RECURSIVE LStripDots(_)
LStripDots(s) == IF s # <<>> /\ s[1] = "." THEN LStripDots(Tail(s)) ELSE s

\* os.path.splitext on a name without "/": the extension starts at the last
\* dot, unless only dots precede that dot
splitext(s) ==
    LET dot == RFind(s, ".")
    IN  IF dot > 0 /\ \E i \in 1..(dot - 1) : s[i] # "."
        THEN <<SubSeq(s, 1, dot - 1), SubSeq(s, dot, Len(s))>>
        ELSE <<s, <<>>>>

RECURSIVE KeepAlnum(_)
KeepAlnum(s) ==
    IF s = <<>> THEN <<>>
    ELSE IF IsAlnum(s[1]) THEN <<s[1]>> \o KeepAlnum(Tail(s))
         ELSE KeepAlnum(Tail(s))

\* re.sub(r'\s+', ' ', s)
RECURSIVE CollapseSpaces(_)
CollapseSpaces(s) ==
    IF s = <<>> THEN <<>>
    ELSE IF IsSpace(s[1])
         THEN <<" ">> \o CollapseSpaces(LStrip(s))
         ELSE <<s[1]>> \o CollapseSpaces(Tail(s))

\* str.replace('..', '.'): left to right, matches do not overlap
RECURSIVE ReplaceDoubleDots(_)
ReplaceDoubleDots(s) ==
    IF Len(s) >= 2 /\ s[1] = "." /\ s[2] = "."
    THEN <<".">> \o ReplaceDoubleDots(SubSeq(s, 3, Len(s)))
    ELSE IF s = <<>> THEN <<>>
         ELSE <<s[1]>> \o ReplaceDoubleDots(Tail(s))

Truncate(s, n) == IF Len(s) > n THEN SubSeq(s, 1, n) ELSE s

(***************************************************************************)
(* sanitize_filename                                                       *)
(***************************************************************************)
\* ext.lower().lstrip('.') filtered by isalnum, behind a dot; the default
\* extension when nothing is left
CleanExtension(ext) ==
    LET cleaned_ext == KeepAlnum(LStripDots([i \in 1..Len(ext) |-> Lower(ext[i])]))
    IN  IF ext = <<>> \/ cleaned_ext = <<>> THEN DEFAULT_EXTENSION
        ELSE <<".">> \o cleaned_ext

\* FILENAME_ALLOWED_PATTERN.sub(' ', name), the spaces collapsed and trimmed;
\* the default base name when nothing is left
CleanStem(name) ==
    LET spaced == [i \in 1..Len(name) |->
                      IF FilenameAllowed(name[i]) THEN name[i] ELSE " "]
        cleaned == Strip(CollapseSpaces(spaced))
    IN  IF cleaned = <<>> THEN DEFAULT_BASENAME ELSE cleaned

\* the closing steps: "Remove any double dots", trim, default, truncate
FinishName(name_ext) ==
    LET sanitized == Strip(ReplaceDoubleDots(name_ext))
    IN  Truncate(IF sanitized = <<>> THEN DEFAULT_BASENAME \o DEFAULT_EXTENSION
                 ELSE sanitized, MaxNameChars)

\* a sanitizer that decodes, takes the last segment and fixes the extension,
\* without the "%" and backslash replacement and the stem clean-up
sanitize_filename_unhardened(filename) ==
    LET d2 == Strip(basename(unquote(filename)))
        decoded == IF d2 = <<>> THEN DEFAULT_BASENAME \o DEFAULT_EXTENSION ELSE d2
        parts == splitext(decoded)
    IN  FinishName((IF parts[1] = <<>> THEN DEFAULT_BASENAME ELSE parts[1])
                       \o CleanExtension(parts[2]))

sanitize_filename(filename) ==
    LET d1 == ReplaceChar(unquote(filename), "%", " ")
        d2 == Strip(basename(ReplaceChar(d1, "\\", "/")))
        decoded == IF d2 = <<>> THEN DEFAULT_BASENAME \o DEFAULT_EXTENSION ELSE d2
        parts == splitext(decoded)
    IN  FinishName(CleanStem(parts[1]) \o CleanExtension(parts[2]))

(***************************************************************************)
(* sanitize_folder_segment, sanitize_relative_path, urllib.parse.quote     *)
(***************************************************************************)
\* cleaned[:120]
MaxFolderChars == 120

DEFAULT_FOLDER == <<"f", "o", "l", "d", "e", "r">>

\* a folder sanitizer that decodes and trims but leaves every character in
sanitize_folder_segment_unfiltered(segment) ==
    LET decoded == Strip(unquote(segment))
    IN  Truncate(IF decoded = <<>> THEN DEFAULT_FOLDER ELSE decoded, MaxFolderChars)

sanitize_folder_segment(segment) ==
    LET d1 == ReplaceChar(ReplaceChar(unquote(segment), "%", " "), "\\", " ")
        decoded == Strip(d1)
        spaced == [i \in 1..Len(decoded) |->
                      IF FolderAllowed(decoded[i]) THEN decoded[i] ELSE " "]
        cleaned == Strip(CollapseSpaces(spaced))
    IN  Truncate(IF cleaned = <<>> THEN DEFAULT_FOLDER ELSE cleaned, MaxFolderChars)

\* str.split('/'), read from character i on: `done` holds the finished
\* parts and `part` the one being read
RECURSIVE SplitFrom(_, _, _, _)
SplitFrom(s, i, part, done) ==
    IF i > Len(s) THEN Append(done, part)
    ELSE IF s[i] = "/" THEN SplitFrom(s, i + 1, <<>>, Append(done, part))
         ELSE SplitFrom(s, i + 1, Append(part, s[i]), done)

\* str.split('/')
SplitSlash(s) == SplitFrom(s, 1, <<>>, <<>>)

\* '/'.join(comps)
RECURSIVE JoinSlash(_)
JoinSlash(comps) ==
    IF comps = <<>> THEN <<>>
    ELSE IF Len(comps) = 1 THEN comps[1]
         ELSE comps[1] \o <<"/">> \o JoinSlash(Tail(comps))

\* [part for part in parts if part]
RECURSIVE NonEmptyParts(_)
NonEmptyParts(parts) ==
    IF parts = <<>> THEN <<>>
    ELSE IF parts[1] = <<>> THEN NonEmptyParts(Tail(parts))
         ELSE <<parts[1]>> \o NonEmptyParts(Tail(parts))

sanitize_relative_path(file_id) ==
    LET normalized == ReplaceChar(file_id, "\\", "/")
        parts == NonEmptyParts(SplitSlash(normalized))
    IN  IF parts = <<>> THEN sanitize_filename(<<>>)
        ELSE JoinSlash([index \in 1..Len(parts) |->
                           IF index = Len(parts) THEN sanitize_filename(parts[index])
                           ELSE sanitize_folder_segment(parts[index])])

\* the characters quote(s, safe='/') leaves alone
QuoteSafe(c) == IsAlnum(c) \/ c \in {"_", ".", "-", "~", "/"}

\* the percent escape of one character's UTF-8 bytes
QuoteChar(c) ==
    CASE c = " " -> <<"%", "2", "0">> [] c = "%" -> <<"%", "2", "5">>
      [] c = "\\" -> <<"%", "5", "C">> [] c = "\"" -> <<"%", "2", "2">>
      [] c = "$" -> <<"%", "2", "4">> [] c = "*" -> <<"%", "2", "A">>
      [] c = "+" -> <<"%", "2", "B">> [] c = "," -> <<"%", "2", "C">>
      [] c = "@" -> <<"%", "4", "0">> [] c = "[" -> <<"%", "5", "B">>
      [] c = "]" -> <<"%", "5", "D">> [] c = "^" -> <<"%", "5", "E">>
      [] c = "<00>" -> <<"%", "0", "0">> [] c = "<02>" -> <<"%", "0", "2">>
      [] c = "<04>" -> <<"%", "0", "4">> [] c = "<05>" -> <<"%", "0", "5">>
      [] c = "<0A>" -> <<"%", "0", "A">> [] c = "<0B>" -> <<"%", "0", "B">>
      [] c = "<0C>" -> <<"%", "0", "C">> [] c = "<0D>" -> <<"%", "0", "D">>
      [] c = "<0E>" -> <<"%", "0", "E">> [] c = "<0F>" -> <<"%", "0", "F">>
      [] OTHER -> <<"%", "E", "F", "%", "B", "F", "%", "B", "D">>

\* urllib.parse.quote(s, safe='/')
RECURSIVE quote(_)
quote(s) ==
    IF s = <<>> THEN <<>>
    ELSE (IF QuoteSafe(s[1]) THEN <<s[1]>> ELSE QuoteChar(s[1])) \o quote(Tail(s))

(***************************************************************************)
(* Paths: os.path.join, os.path.normpath, os.path.abspath,                 *)
(* os.path.commonpath (posixpath)                                          *)
(***************************************************************************)
DotDot == <<".", ".">>

Dot == <<".">>

\* os.path.join(a, b)
os_path_join(a, b) ==
    IF b # <<>> /\ b[1] = "/" THEN b
    ELSE IF a = <<>> \/ a[Len(a)] = "/" THEN a \o b
         ELSE a \o <<"/">> \o b

\* the loop of normpath over the components, new_comps carried along
RECURSIVE NormComps(_, _, _)
NormComps(comps, new_comps, initial_slashes) ==
    IF comps = <<>> THEN new_comps
    ELSE LET comp == comps[1]
             rest == Tail(comps)
         IN  IF comp = <<>> \/ comp = Dot
             THEN NormComps(rest, new_comps, initial_slashes)
             ELSE IF \/ comp # DotDot
                     \/ (initial_slashes = 0 /\ new_comps = <<>>)
                     \/ (new_comps # <<>> /\ new_comps[Len(new_comps)] = DotDot)
                  THEN NormComps(rest, Append(new_comps, comp), initial_slashes)
                  ELSE IF new_comps # <<>>
                       THEN NormComps(rest, SubSeq(new_comps, 1, Len(new_comps) - 1),
                                      initial_slashes)
                       ELSE NormComps(rest, new_comps, initial_slashes)

\* os.path.normpath: "//" at the start is kept, "///" and more is "/"
normpath(path) ==
    LET initial_slashes ==
            IF path = <<>> \/ path[1] # "/" THEN 0
            ELSE IF Len(path) >= 2 /\ path[2] = "/" /\ ~(Len(path) >= 3 /\ path[3] = "/")
                 THEN 2 ELSE 1
        body == JoinSlash(NormComps(SplitSlash(path), <<>>, initial_slashes))
        result == [i \in 1..initial_slashes |-> "/"] \o body
    IN  IF result = <<>> THEN Dot ELSE result

\* os.path.abspath of a path that is absolute already
abspath(path) == normpath(path)

RECURSIVE DropEmpty(_)
DropEmpty(comps) ==
    IF comps = <<>> THEN <<>>
    ELSE IF comps[1] = <<>> \/ comps[1] = Dot THEN DropEmpty(Tail(comps))
         ELSE <<comps[1]>> \o DropEmpty(Tail(comps))

RECURSIVE CommonPrefix(_, _)
CommonPrefix(a, b) ==
    IF a # <<>> /\ b # <<>> /\ a[1] = b[1]
    THEN <<a[1]>> \o CommonPrefix(Tail(a), Tail(b))
    ELSE <<>>

\* the longest common prefix character by character, as os.path.commonprefix
\* computes it
commonprefix(p1, p2) == CommonPrefix(p1, p2)

\* os.path.commonpath of two absolute paths: the longest common prefix
\* component by component
commonpath(p1, p2) ==
    <<"/">> \o JoinSlash(CommonPrefix(DropEmpty(SplitSlash(p1)),
                                      DropEmpty(SplitSlash(p2))))

(***************************************************************************)
(* LocalStorage._safe_join                                                 *)
(***************************************************************************)
\* LocalStorage.full_path, the storage root: an absolute, normalised path
full_path == <<"/", "r", "/", "f">>

\* [raised |-> TRUE] for the ValueError, else the absolute path returned
safe_join(relative_path) ==
    LET absolute_path == abspath(os_path_join(full_path, relative_path))
    IN  IF commonpath(full_path, absolute_path) # full_path
        THEN [raised |-> TRUE, path |-> <<>>]
        ELSE [raised |-> FALSE, path |-> absolute_path]

(***************************************************************************)
(* LocalStorage._candidate_ids                                             *)
(***************************************************************************)
InSeq(x, seq) == \E i \in 1..Len(seq) : seq[i] = x

\* candidates.append(x) when x is wanted and not in the list yet
AppendNew(seq, x, wanted) == IF wanted /\ ~InSeq(x, seq) THEN Append(seq, x) ELSE seq

\* candidates that put the sanitized form before the raw id
candidate_ids_sanitized_first(file_id) ==
    LET normalized == ReplaceChar(file_id, "\\", "/")
        decoded == unquote(normalized)
        encoded == quote(decoded)
        sanitized == sanitize_relative_path(normalized)
        sanitized_encoded == quote(sanitized)
        c1 == <<sanitized>>
        c2 == AppendNew(c1, normalized, TRUE)
        c3 == AppendNew(c2, decoded, TRUE)
        c4 == AppendNew(c3, encoded, encoded # <<>>)
    IN  AppendNew(c4, sanitized_encoded, sanitized_encoded # <<>>)

candidate_ids(file_id) ==
    LET normalized == ReplaceChar(file_id, "\\", "/")
        decoded == unquote(normalized)
        encoded == quote(decoded)
        sanitized == sanitize_relative_path(normalized)
        sanitized_encoded == quote(sanitized)
        c1 == <<normalized>>
        c2 == AppendNew(c1, decoded, TRUE)
        c3 == AppendNew(c2, encoded, encoded # <<>>)
        c4 == AppendNew(c3, sanitized, TRUE)
    IN  AppendNew(c4, sanitized_encoded, sanitized_encoded # <<>>)

(***************************************************************************)
(* The file system under the storage root.  A place under the root is the  *)
(* sequence of the names that lead to it from the root; <<>> is the root   *)
(* directory itself.                                                       *)
(***************************************************************************)
\* the names a normalised "/"-separated path is made of
Segments(path) == DropEmpty(SplitSlash(path))

RootLen == Len(Segments(full_path))

\* the place of an absolute path that lies in the root
RelOf(absolute_path) ==
    LET comps == Segments(absolute_path)
    IN  SubSeq(comps, RootLen + 1, Len(comps))

\* os.path.relpath(file_path, self.full_path).replace(os.sep, '/')
PathOf(place) == JoinSlash(place)

\* os.path.dirname and os.path.basename
DirOf(place) == SubSeq(place, 1, Len(place) - 1)

NameOf(place) == place[Len(place)]

\* the directory and its ancestors up to the root
SelfAndAncestors(directory) == {SubSeq(directory, 1, k) : k \in 0..Len(directory)}

\* os.path.exists
ExistsIn(f, d, place) == place \in DOMAIN f \/ place \in d

\* os.listdir
Listdir(f, d, directory) ==
    {NameOf(p) : p \in {q \in (DOMAIN f \cup d) : q # <<>> /\ DirOf(q) = directory}}

Put(f, place, v) == [q \in DOMAIN f \cup {place} |-> IF q = place THEN v ELSE f[q]]

Remove(f, place) == [q \in DOMAIN f \ {place} |-> f[q]]

\* os.makedirs(directory, exist_ok=True) succeeds unless a file is in the way
MakedirsOk(f, directory) == SelfAndAncestors(directory) \cap DOMAIN f = {}

\* os.removedirs: remove the directory if it is empty, then its parent, and so
\* on upwards until one is not empty (the walk is followed up to the root)
RECURSIVE removedirs(_, _, _)
removedirs(f, d, directory) ==
    IF Listdir(f, d, directory) # {} \/ directory \notin d THEN d
    ELSE IF directory = <<>> THEN d \ {<<>>}
         ELSE removedirs(f, d \ {directory}, DirOf(directory))

\* [raised |-> TRUE] when _safe_join raises, else the place it returns
safe_place(relative_path) ==
    LET absolute_path == safe_join(relative_path)
    IN  IF absolute_path.raised THEN [raised |-> TRUE, path |-> <<>>]
        ELSE [raised |-> FALSE, path |-> RelOf(absolute_path.path)]

(***************************************************************************)
(* What the storage runs are made of: dates, upload names, contents,       *)
(* prefixes, file ids, and the stores a run starts from                    *)
(***************************************************************************)
\* datetime.now(), as strftime('%Y') and strftime('%B') show it
June == [year |-> <<"2", "0", "2", "4">>, month |-> <<"J", "u", "n", "e">>]

July == [year |-> <<"2", "0", "2", "4">>, month |-> <<"J", "u", "l", "y">>]

Dates == {June, July}

\* folder_path = f"{year}/{month}"
folder_path(date) == date.year \o <<"/">> \o date.month

\* the names files are uploaded under: "x%20x" and "x x" sanitize to the same
\* name, "." to a name that sanitizing changes again
UploadNames == {<<"x", "%", "2", "0", "x">>, <<"x", " ", "x">>, <<".">>}

Contents == {<<"a">>, <<"b", "b">>}

\* the prefixes list_files is called with
Prefixes == {<<>>, folder_path(June), folder_path(July)}

\* file ids that name no file as they stand: three that may name no file at
\* all, and one that names a directory
ExtraIds ==
    {folder_path(June) \o <<"/", "x", "%", "2", "0", "x", ".", "h", "t", "m", "l">>,
     folder_path(June) \o <<"/", "x", " ", " ", "x", ".", "h", "t", "m", "l">>,
     <<"y", ".", "h", "t", "m", "l">>,
     folder_path(June)}

\* a store that holds one file, written at time 0, before the run starts
StoreOf(file_path) ==
    [files |-> Put(<<>>, Segments(file_path), [content |-> <<"a">>, ctime |-> 0]),
     dirs |-> SelfAndAncestors(DirOf(Segments(file_path)))]

\* a store that holds the files of a store written earlier, at time -1, and
\* those of a store written after it
BothOf(earlier, later) ==
    [files |-> [p \in DOMAIN earlier.files \cup DOMAIN later.files |->
                   IF p \in DOMAIN later.files THEN later.files[p]
                   ELSE [earlier.files[p] EXCEPT !.ctime = -1]],
     dirs |-> earlier.dirs \cup later.dirs]

\* the stores a run starts from: an empty one, one holding an uploaded file,
\* one holding a file whose name on disk is percent-encoded, one holding
\* a file whose name on disk ("x  x.html") is no form of the id
\* "x%20x.html" but has the same sanitized name, and one holding the
\* percent-encoded file next to the file an upload of "x x" has made, and
\* one holding two files whose names on disk have the same sanitized name
InitialStores ==
    {[files |-> <<>>, dirs |-> {<<>>}],
     StoreOf(folder_path(June) \o <<"/", "x", ".", "h", "t", "m", "l">>),
     StoreOf(folder_path(June) \o <<"/", "x", "%", "2", "0", "x", ".", "h", "t", "m", "l">>),
     StoreOf(folder_path(June) \o <<"/", "x", " ", " ", "x", ".", "h", "t", "m", "l">>),
     BothOf(StoreOf(folder_path(June) \o <<"/", "x", "%", "2", "0", "x", ".", "h", "t", "m", "l">>),
            [files |-> Put(<<>>, Segments(folder_path(June) \o <<"/", "x", " ", "x", ".", "h", "t", "m", "l">>),
                           [content |-> <<"b", "b">>, ctime |-> 0]),
             dirs |-> {}]),
     BothOf(StoreOf(folder_path(June) \o <<"/", "x", "%", "2", "0", "%", "2", "0", "x", ".", "h", "t", "m", "l">>),
            StoreOf(folder_path(June) \o <<"/", "x", " ", " ", "x", ".", "h", "t", "m", "l">>))}

(***************************************************************************)
(* The values of the string functions on the strings that a storage run    *)
(* meets are computed when the run starts and kept in `known`; the         *)
(* operations of the backend look them up there.                           *)
(***************************************************************************)
\* the file ids of a run: those given, those of the files of the initial
\* stores, those upload returns, and their sanitized forms
KnownIds ==
    LET given ==
            ExtraIds
                \cup {PathOf(p) : p \in UNION {DOMAIN store.files : store \in InitialStores}}
                \cup {folder_path(date) \o <<"/">> \o sanitize_filename(sanitize_filename(n)) :
                         date \in Dates, n \in UploadNames}
    IN  given \cup {sanitize_relative_path(id) : id \in given}

\* the relative paths of a run: the ids, their candidates, and the
\* directories above each
PathsOf(ids) ==
    LET listed == ids \cup UNION {{candidate_ids(id)[i] : i \in 1..Len(candidate_ids(id))} :
                                     id \in ids}
    IN  listed \cup {<<>>}
               \cup UNION {{SubSeq(p, 1, i - 1) : i \in {j \in 1..Len(p) : p[j] = "/"}} :
                              p \in listed}

\* the file names of a run: the upload names, sanitized once, and the last
\* segment of each path
NamesOf(paths) ==
    UploadNames \cup {sanitize_filename(n) : n \in UploadNames}
        \cup {SubSeq(p, RFind(p, "/") + 1, Len(p)) : p \in paths}

TablesOn(ids, paths, names) ==
    [candidate_ids |-> [id \in ids |-> candidate_ids(id)],
     sanitize_relative_path |-> [id \in ids |-> sanitize_relative_path(id)],
     safe_join |-> [p \in paths |-> safe_place(p)],
     sanitize_filename |-> [n \in names |-> sanitize_filename(n)],
     search_path |-> [prefix \in Prefixes |->
                         RelOf(normpath(os_path_join(full_path, prefix)))]]

StringTables == TablesOn(KnownIds, PathsOf(KnownIds), NamesOf(PathsOf(KnownIds)))

Candidates(file_id) == known.candidate_ids[file_id]

SanitizedPath(file_id) == known.sanitize_relative_path[file_id]

Place(relative_path) == known.safe_join[relative_path]

Sanitized(filename) == known.sanitize_filename[filename]

(***************************************************************************)
(* LocalStorage._resolve_existing_path and _find_file_in_directory         *)
(***************************************************************************)
NotFound == [found |-> FALSE, path |-> <<>>]

\* the candidates that join safely and exist, by position
LiveCandidates(f, d, file_id) ==
    LET cands == Candidates(file_id)
    IN  {i \in 1..Len(cands) :
            /\ ~Place(cands[i]).raised
            /\ ExistsIn(f, d, Place(cands[i]).path)}

\* the entries of the target directory that _find_file_in_directory may
\* return: os.listdir gives them in no fixed order and the first match wins
find_file_in_directory(f, d, file_id) ==
    LET normalized_id == ReplaceChar(file_id, "\\", "/")
        cut == RFind(normalized_id, "/")
        dir_path == SubSeq(normalized_id, 1, cut - 1)
        target_filename == SubSeq(normalized_id, cut + 1, Len(normalized_id))
        joined_dir == Place(dir_path)
        search_dir == IF cut = 0 THEN <<>> ELSE joined_dir.path
        sanitized_target == Sanitized(target_filename)
    IN  IF cut # 0 /\ joined_dir.raised THEN {}
        ELSE IF search_dir \notin d THEN {}
             ELSE {Append(search_dir, actual_filename) :
                      actual_filename \in
                          {a \in Listdir(f, d, search_dir) :
                              \/ a = target_filename
                              \/ Sanitized(a) = sanitized_target}}

\* what _resolve_existing_path may return
resolve_existing_path(f, d, file_id) ==
    LET cands == Candidates(file_id)
        live == LiveCandidates(f, d, file_id)
    IN  IF live # {}
        THEN LET first == CHOOSE i \in live : \A j \in live : i <= j
             IN  {[found |-> TRUE, path |-> Place(cands[first]).path]}
        ELSE LET matches == find_file_in_directory(f, d, file_id)
             IN  IF matches = {} THEN {NotFound}
                 ELSE {[found |-> TRUE, path |-> q] : q \in matches}

(***************************************************************************)
(* LocalStorage.upload, delete, save, list_files                           *)
(***************************************************************************)
\* os.path.splitext(filename)[1][1:] if '.' in filename else ''
FormatOf(filename) ==
    LET ext == splitext(filename)[2]
    IN  IF ext = <<>> THEN <<>> ELSE Tail(ext)

Failure == [success |-> FALSE, file_id |-> <<>>, display_name |-> <<>>,
            size |-> 0, created_at |-> 0, format |-> <<>>]

\* the file system and the result after an upload that opens the file for
\* exclusive creation ('xb') and so fails when the file is there already
local_upload_exclusive(f, d, content, filename, date, now) ==
    LET clean == Sanitized(filename)
        relative_path == folder_path(date) \o <<"/">> \o clean
        file_path == Place(relative_path)
        target == file_path.path
        made == d \cup SelfAndAncestors(DirOf(target))
    IN  IF file_path.raised \/ ~MakedirsOk(f, DirOf(target))
        THEN [files |-> f, dirs |-> d, result |-> Failure]
        ELSE IF target \in made \/ target \in DOMAIN f
             THEN [files |-> f, dirs |-> made, result |-> Failure]
             ELSE [files |-> Put(f, target, [content |-> content, ctime |-> now]),
                   dirs |-> made,
                   result |-> [success |-> TRUE, file_id |-> relative_path,
                               display_name |-> clean,
                               size |-> Len(content), created_at |-> now,
                               format |-> FormatOf(clean)]]

\* the file system and the result after LocalStorage.upload
local_upload(f, d, content, filename, date, now) ==
    LET clean == Sanitized(filename)
        relative_path == folder_path(date) \o <<"/">> \o clean
        file_path == Place(relative_path)
        target == file_path.path
        made == d \cup SelfAndAncestors(DirOf(target))
    IN  IF file_path.raised \/ ~MakedirsOk(f, DirOf(target))
        THEN [files |-> f, dirs |-> d, result |-> Failure]
        ELSE IF target \in made
             THEN [files |-> f, dirs |-> made, result |-> Failure]
             ELSE [files |-> Put(f, target, [content |-> content, ctime |-> now]),
                   dirs |-> made,
                   result |-> [success |-> TRUE, file_id |-> relative_path,
                               display_name |-> clean,
                               size |-> Len(content), created_at |-> now,
                               format |-> FormatOf(clean)]]

\* the error LocalStorage.download raises ("" for none) and the bytes it
\* returns, the file having resolved to `existing`: open() raises on a directory
local_download(f, existing) ==
    IF ~existing.found
    THEN [raised |-> "FileNotFoundError", content |-> <<>>]
    ELSE IF existing.path \in DOMAIN f
         THEN [raised |-> "", content |-> f[existing.path].content]
         ELSE [raised |-> "IsADirectoryError", content |-> <<>>]

\* the file system and the result after LocalStorage.delete, the file having
\* resolved to `existing`
local_delete(f, d, existing) ==
    IF existing.found /\ existing.path \in DOMAIN f
    THEN [files |-> Remove(f, existing.path),
          dirs |-> removedirs(Remove(f, existing.path), d, DirOf(existing.path)),
          result |-> TRUE]
    ELSE [files |-> f, dirs |-> d, result |-> FALSE]

\* one change LocalStorage.save made to the file system
Removed(place) == [op |-> "remove", place |-> place]

Written(place) == [op |-> "write", place |-> place]

\* the file system and the result after LocalStorage.save, the file having
\* resolved to `existing`: the old file is removed, then the content written;
\* `steps` are the changes made to the file system, in the order made
local_save(f, d, file_id, content, existing, now) ==
    LET normalized_id == ReplaceChar(file_id, "\\", "/")
        safe_relative == SanitizedPath(normalized_id)
        target_path == Place(safe_relative)
        target == target_path.path
        made == d \cup SelfAndAncestors(DirOf(target))
        moved == existing.found /\ existing.path # target
        removed == moved /\ existing.path \in DOMAIN f
        kept == IF removed THEN Remove(f, existing.path) ELSE f
        removal == IF removed THEN <<Removed(existing.path)>> ELSE <<>>
    IN  IF target_path.raised \/ ~MakedirsOk(f, DirOf(target))
        THEN [files |-> f, dirs |-> d, result |-> FALSE, steps |-> <<>>]
        ELSE IF target \in made
             THEN [files |-> kept, dirs |-> made, result |-> FALSE, steps |-> removal]
             ELSE [files |-> Put(kept, target, [content |-> content, ctime |-> now]),
                   dirs |-> made, result |-> TRUE,
                   steps |-> Append(removal, Written(target))]

\* the FileRecord list_files builds for one file
FileRecord(f, place) ==
    [public_id |-> PathOf(place), filename |-> NameOf(place),
     display_name |-> Sanitized(NameOf(place)),
     size |-> Len(f[place].content), created_at |-> f[place].ctime,
     format |-> FormatOf(NameOf(place))]

\* the files os.walk finds under root/prefix
WalkedFiles(f, d, prefix) ==
    LET search_path == known.search_path[prefix]
    IN  IF search_path \notin d THEN {}
        ELSE {place \in DOMAIN f : search_path \in SelfAndAncestors(DirOf(place))}

\* what LocalStorage.list_files may return: the records sorted by created_at,
\* newest first; os.walk orders the files of equal created_at
local_list_files(f, d, prefix) ==
    LET found == WalkedFiles(f, d, prefix)
        n == Cardinality(found)
    IN  {[i \in 1..n |-> FileRecord(f, order[i])] :
            order \in {o \in [1..n -> found] :
                          /\ \A i, j \in 1..n : i # j => o[i] # o[j]
                          /\ \A i, j \in 1..n :
                                 i < j => f[o[i]].ctime >= f[o[j]].ctime}}

(***************************************************************************)
(* Sanitizer runs: a filename is sanitized, and the result sanitized again *)
(***************************************************************************)
NoJoin == [raised |-> FALSE, path |-> <<>>]

JoinIdle == rel = <<>> /\ joined = NoJoin /\ jpc = "idle"

SanitizeIdle == raw = <<>> /\ once = <<>> /\ twice = <<>> /\ spc = "idle"

\* no StorageManager call yet
NoCall ==
    [kind |-> "none", arg |-> <<>>, content |-> <<>>, ok |-> FALSE,
     file_id |-> <<>>, listing |-> <<>>, date |-> June, at |-> 0, calls |-> 0,
     had |-> 0, nfiles |-> 0, steps |-> <<>>, resolved |-> NotFound,
     raised |-> ""]

StorageIdle ==
    /\ files = <<>>
    /\ dirs = {<<>>}
    /\ today = June
    /\ clock = 0
    /\ listCalls = 0
    /\ ops = 0
    /\ last = NoCall
    /\ prev = NoCall
    /\ known = <<>>

ListIdle == lprefix = <<>> /\ lfound = {} /\ lpc = "idle"

\* no CloudinaryStorage call yet
NoCloudCall ==
    [kind |-> "none", arg |-> <<>>, result |-> FALSE, raised |-> FALSE,
     existed |-> FALSE, failed |-> FALSE, listing |-> <<>>]

CloudIdle == resources = <<>> /\ cnow = 0 /\ cops = 0 /\ clast = NoCloudCall

\* Optional[bytes]: None, or some bytes
None == [some |-> FALSE, bytes |-> <<>>]

Some(b) == [some |-> TRUE, bytes |-> b]

NoReply == [kind |-> "none", status |-> 0, body |-> <<>>]

ConvertIdle ==
    /\ token = "None"
    /\ html = <<>>
    /\ sent = <<>>
    /\ reply = NoReply
    /\ screenshot = None
    /\ posts = 0
    /\ launches = 0
    /\ composes = 0
    /\ ended = "none"
    /\ cpc = "idle"

ComposeIdle == request = <<>> /\ page = <<>> /\ ppc = "idle"

\* none of the later runs takes place
ColourIdle == value = None /\ rgb = <<>> /\ kpc = "idle"

NoResponse ==
    [route |-> "none", arg |-> <<>>, kind |-> "none", flash |-> "",
     filename |-> <<>>, content_type |-> "", content |-> <<>>]

RouteIdle == resp = NoResponse /\ backendUploads = 0 /\ served = 0

PathIdle == pathId = <<>> /\ pathClean = <<>> /\ pathPc = "idle"

NoStats == [total_files |-> 0, renamed_files |-> 0, errors |-> 0, skipped |-> 0]

CleanupIdle ==
    /\ tree = {}
    /\ treeBefore = {}
    /\ pending = {}
    /\ stats = NoStats
    /\ dryStats = NoStats
    /\ phase = "idle"

RestIdle == ColourIdle /\ RouteIdle /\ PathIdle /\ CleanupIdle

LaterIdle == ListIdle /\ CloudIdle /\ ConvertIdle /\ ComposeIdle /\ RestIdle

InitSanitize ==
    /\ raw \in Strings(MaxLen)
    /\ once = <<>>
    /\ twice = <<>>
    /\ spc = "start"
    /\ JoinIdle
    /\ StorageIdle
    /\ LaterIdle

Sanitize ==
    /\ spc = "start"
    /\ once' = sanitize_filename(raw)
    /\ spc' = "once"
    /\ UNCHANGED <<raw, twice, joinVars, storageVars, laterVars>>

SanitizeAgain ==
    /\ spc = "once"
    /\ twice' = sanitize_filename(once)
    /\ spc' = "twice"
    /\ UNCHANGED <<raw, once, joinVars, storageVars, laterVars>>

NextSanitize == Sanitize \/ SanitizeAgain

SpecSanitize == InitSanitize /\ [][NextSanitize]_vars

\* C1: sanitize_filename is idempotent: sanitizing a sanitized name gives
\* that name again.
C1_Idempotent == spc = "twice" => twice = once

HasChar(s, c) == \E i \in 1..Len(s) : s[i] = c

\* C3: the sanitized name holds no "%", no backslash and no "/", whatever
\* the input, percent-encoded and double-encoded input included.
C3_SingleSegment ==
    spc # "start" => ~HasChar(once, "%") /\ ~HasChar(once, "\\") /\ ~HasChar(once, "/")

\* a filename whose decoding leaves a "%" behind (as "%25.." does) and that
\* holds a separator has been sanitized
C3_Witness ==
    /\ spc = "once"
    /\ HasChar(unquote(raw), "%")
    /\ HasChar(raw, "/") \/ HasChar(raw, "\\")
    /\ once # DEFAULT_BASENAME \o DEFAULT_EXTENSION

HasDoubleDot(s) == \E i \in 1..(Len(s) - 1) : s[i] = "." /\ s[i + 1] = "."

\* C4: the sanitized name holds no ".." sequence.
C4_NoDoubleDots == spc # "start" => ~HasDoubleDot(once)

(***************************************************************************)
(* Safe-join runs: _safe_join is applied to a relative path                *)
(***************************************************************************)
PathAlphabet == {".", "/", "a", "f", "r"}

InitJoin ==
    /\ rel \in UNION {[1..k -> PathAlphabet] : k \in 0..MaxRel}
    /\ joined = NoJoin
    /\ jpc = "start"
    /\ SanitizeIdle
    /\ StorageIdle
    /\ LaterIdle

SafeJoin ==
    /\ jpc = "start"
    /\ joined' = safe_join(rel)
    /\ jpc' = "done"
    /\ UNCHANGED <<rel, sanitizeVars, storageVars, laterVars>>

NextJoin == SafeJoin

SpecJoin == InitJoin /\ [][NextJoin]_vars

\* where the file system takes a path, walked component by component from
\* the directory `from`: "" and "." stay, ".." goes to the parent (the
\* parent of "/" is "/"), any other name descends
RECURSIVE Walk(_, _)
Walk(from, comps) ==
    IF comps = <<>> THEN from
    ELSE IF comps[1] = <<>> \/ comps[1] = Dot THEN Walk(from, Tail(comps))
         ELSE IF comps[1] = DotDot
              THEN Walk(IF from = <<>> THEN <<>> ELSE SubSeq(from, 1, Len(from) - 1),
                        Tail(comps))
              ELSE Walk(Append(from, comps[1]), Tail(comps))

RootDir == <<<<"r">>, <<"f">>>>

\* the directory a path names when it is opened relative to the storage root
Resolve(path) ==
    IF path # <<>> /\ path[1] = "/" THEN Walk(<<>>, SplitSlash(path))
    ELSE Walk(RootDir, SplitSlash(path))

IsPrefixOf(a, b) == Len(a) <= Len(b) /\ SubSeq(b, 1, Len(a)) = a

InsideRoot(dir) == IsPrefixOf(RootDir, dir)

\* C2: _safe_join raises for every relative path that resolves outside the
\* storage root, and for every other path returns a path inside the root
\* (the place the relative path resolves to).
C2_SafeJoin ==
    jpc = "done" =>
        /\ joined.raised <=> ~InsideRoot(Resolve(rel))
        /\ ~joined.raised =>
               /\ joined.path[1] = "/"
               /\ Resolve(joined.path) = Resolve(rel)
               /\ InsideRoot(Resolve(joined.path))

\* a path that climbs out of the root with ".." has been refused, e.g.
\* "../fa", the root's sibling whose name starts like the root's
C2_Witness ==
    /\ jpc = "done"
    /\ joined.raised
    /\ rel = <<".", ".", "/", "f", "a">>

(***************************************************************************)
(* Storage runs: requests reach the StorageManager of a local backend one  *)
(* after the other, one tick of the clock apart; each request constructs   *)
(* its StorageManager, and with it the LocalStorage, whose __init__ makes  *)
(* sure the root exists.                                                   *)
(***************************************************************************)
\* STORAGE_CACHE_TTL, in seconds
STORAGE_CACHE_TTL == 120

\* the file ids download, delete and save are called with
FileIds == {PathOf(p) : p \in DOMAIN files} \cup ExtraIds

InitStorage ==
    /\ \E store \in InitialStores : files = store.files /\ dirs = store.dirs
    /\ today = June
    /\ clock = 1
    /\ listCalls = 0
    /\ ops = 0
    /\ last = NoCall
    /\ prev = NoCall
    /\ known = StringTables
    /\ SanitizeIdle
    /\ JoinIdle
    /\ LaterIdle

\* LocalStorage.__init__: os.makedirs(self.full_path, exist_ok=True)
WithRoot(d) == d \cup {<<>>}

\* a StorageManager call, what it returned or raised, the files before and
\* after, what _resolve_existing_path returned in it and (for save) the
\* changes it made to the file system, in order
Call(kind, arg, content, ok, file_id, listing, calls, f) ==
    [kind |-> kind, arg |-> arg, content |-> content, ok |-> ok,
     file_id |-> file_id, listing |-> listing, date |-> today, at |-> clock,
     calls |-> calls, had |-> Cardinality(DOMAIN files),
     nfiles |-> Cardinality(DOMAIN f), steps |-> <<>>, resolved |-> NotFound,
     raised |-> ""]

\* StorageManager.upload: the name is sanitized, then handed to the backend
ManagerUpload ==
    /\ ops < MaxOps
    /\ \E filename \in UploadNames, content \in Contents :
          LET clean_name == Sanitized(filename)
              out == local_upload(files, WithRoot(dirs), content, clean_name,
                                  today, clock)
          IN  /\ files' = out.files
              /\ dirs' = out.dirs
              /\ last' = Call("upload", filename, content, out.result.success,
                              out.result.file_id, <<>>, listCalls, out.files)
    /\ prev' = last
    /\ ops' = ops + 1
    /\ clock' = clock + 1
    /\ UNCHANGED <<today, listCalls, known, sanitizeVars, joinVars, laterVars>>

\* StorageManager.delete
ManagerDelete ==
    /\ ops < MaxOps
    /\ \E file_id \in FileIds :
          \E existing \in resolve_existing_path(files, WithRoot(dirs), file_id) :
              LET out == local_delete(files, WithRoot(dirs), existing)
              IN  /\ files' = out.files
                  /\ dirs' = out.dirs
                  /\ last' = [Call("delete", file_id, <<>>, out.result, <<>>,
                                   <<>>, listCalls, out.files)
                                  EXCEPT !.resolved = existing]
    /\ prev' = last
    /\ ops' = ops + 1
    /\ clock' = clock + 1
    /\ UNCHANGED <<today, listCalls, known, sanitizeVars, joinVars, laterVars>>

\* StorageManager.save
ManagerSave ==
    /\ ops < MaxOps
    /\ \E file_id \in FileIds, content \in Contents :
          \E existing \in resolve_existing_path(files, WithRoot(dirs), file_id) :
              LET out == local_save(files, WithRoot(dirs), file_id, content,
                                    existing, clock)
              IN  /\ files' = out.files
                  /\ dirs' = out.dirs
                  /\ last' = [Call("save", file_id, content, out.result, <<>>,
                                   <<>>, listCalls, out.files)
                                  EXCEPT !.steps = out.steps,
                                         !.resolved = existing]
    /\ prev' = last
    /\ ops' = ops + 1
    /\ clock' = clock + 1
    /\ UNCHANGED <<today, listCalls, known, sanitizeVars, joinVars, laterVars>>

\* StorageManager.download
ManagerDownload ==
    /\ ops < MaxOps
    /\ \E file_id \in FileIds :
          \E existing \in resolve_existing_path(files, WithRoot(dirs), file_id) :
              LET out == local_download(files, existing)
              IN  last' = [Call("download", file_id, out.content, out.raised = "",
                                <<>>, <<>>, listCalls, files)
                           EXCEPT !.resolved = existing, !.raised = out.raised]
    /\ dirs' = WithRoot(dirs)
    /\ prev' = last
    /\ ops' = ops + 1
    /\ clock' = clock + 1
    /\ UNCHANGED <<files, today, listCalls, known, sanitizeVars, joinVars, laterVars>>

\* a list_files that answers from what it knew before the latest upload,
\* without a backend call
manager_list_files_stale(prefix) ==
    LET before == IF last.kind = "upload" /\ last.ok
                 THEN Remove(files, Segments(last.file_id)) ELSE files
    IN  {[listing |-> listing, calls |-> listCalls] :
            listing \in local_list_files(before, WithRoot(dirs), prefix)}

\* what StorageManager.list_files may return, and the backend list_files
\* calls made once it has returned
manager_list_files(prefix) ==
    {[listing |-> listing, calls |-> listCalls + 1] :
        listing \in local_list_files(files, WithRoot(dirs), prefix)}

\* StorageManager.list_files
ManagerListFiles ==
    /\ ops < MaxOps
    /\ \E prefix \in Prefixes :
          \E out \in manager_list_files(prefix) :
              /\ last' = Call("list", prefix, <<>>, TRUE, <<>>, out.listing,
                              out.calls, files)
              /\ listCalls' = out.calls
    /\ dirs' = WithRoot(dirs)
    /\ prev' = last
    /\ ops' = ops + 1
    /\ clock' = clock + 1
    /\ UNCHANGED <<files, today, known, sanitizeVars, joinVars, laterVars>>

\* the month ends between two requests
MonthEnds ==
    /\ ops < MaxOps
    /\ today = June
    /\ today' = July
    /\ UNCHANGED <<files, dirs, clock, listCalls, ops, last, prev, known,
                   sanitizeVars, joinVars, laterVars>>

NextStorage ==
    \/ ManagerUpload
    \/ ManagerDelete
    \/ ManagerSave
    \/ ManagerDownload
    \/ ManagerListFiles
    \/ MonthEnds

SpecStorage == InitStorage /\ [][NextStorage]_vars

Mutations == {"upload", "delete", "save"}

\* C5: two list_files calls with the same prefix, the second right after the
\* first (no mutating call between them) and within the configured TTL, which
\* is above 0, return identical results, and the second makes no backend
\* list call.
C5_SecondListFromCache ==
    (/\ prev.kind = "list"
     /\ last.kind = "list"
     /\ last.arg = prev.arg
     /\ STORAGE_CACHE_TTL > 0
     /\ (last.at - prev.at) * TickSeconds < STORAGE_CACHE_TTL)
        => last.listing = prev.listing /\ last.calls = prev.calls

\* C6: the list_files call that follows a successful upload, delete or save
\* calls the backend and returns a listing of the store as the mutation left
\* it, for any prefix.
C6_ListAfterMutation ==
    (last.kind = "list" /\ prev.kind \in Mutations /\ prev.ok)
        => /\ last.calls = prev.calls + 1
           /\ last.listing \in local_list_files(files, dirs, last.arg)
           /\ (prev.kind = "upload" /\ last.arg = <<>>)
                  => \E i \in 1..Len(last.listing) :
                         /\ last.listing[i].public_id = prev.file_id
                         /\ last.listing[i].size = Len(prev.content)

\* a file has been uploaded into a store that held another file, and the
\* listing of the root made right after holds both
C6_Witness ==
    /\ prev.kind = "upload"
    /\ prev.ok
    /\ prev.nfiles = 2
    /\ last.kind = "list"
    /\ last.arg = <<>>
    /\ Len(last.listing) = 2
    /\ last.listing[1].public_id = prev.file_id

\* C8: a successful StorageManager.upload returns as file_id, and stores the
\* content under, exactly '{year}/{month-name}/' + sanitize_filename(filename),
\* the partition being that of the current date.
C8_UploadKey ==
    (last.kind = "upload" /\ last.ok)
        => LET key == folder_path(last.date) \o <<"/">> \o sanitize_filename(last.arg)
           IN  /\ last.file_id = key
               /\ Segments(key) \in DOMAIN files
               /\ files[Segments(key)].content = last.content

\* C9: two uploads, one right after the other in the same date partition,
\* under names that sanitize to the same name, both succeed with the same
\* file_id; the second adds no file, and the file under that key holds the
\* content of the second upload.
C9_ReuploadOverwrites ==
    (/\ prev.kind = "upload"
     /\ last.kind = "upload"
     /\ prev.date = last.date
     /\ sanitize_filename(prev.arg) = sanitize_filename(last.arg))
        => /\ prev.ok
           /\ last.ok
           /\ last.file_id = prev.file_id
           /\ last.nfiles = prev.nfiles
           /\ Segments(last.file_id) \in DOMAIN files
           /\ files[Segments(last.file_id)].content = last.content

\* "x%20x" has been uploaded, then "x x" with another content, in the same
\* month
C9_Witness ==
    /\ prev.kind = "upload"
    /\ last.kind = "upload"
    /\ prev.date = last.date
    /\ prev.arg # last.arg
    /\ prev.content # last.content
    /\ sanitize_filename(prev.arg) = sanitize_filename(last.arg)
    /\ last.ok

\* C10: on an initially empty store, an upload followed by a listing of the
\* date partition it went to returns exactly one FileRecord, whose public_id
\* is the returned file_id and whose display_name is the sanitized upload
\* name.
C10_UploadThenList ==
    (/\ prev.kind = "upload"
     /\ prev.ok
     /\ prev.had = 0
     /\ last.kind = "list"
     /\ last.arg = folder_path(prev.date))
        => /\ Len(last.listing) = 1
           /\ last.listing[1].public_id = prev.file_id
           /\ last.listing[1].display_name = sanitize_filename(prev.arg)

(***************************************************************************)
(* Listing runs: LocalStorage.list_files is called with a prefix on a disk *)
(* that holds files in the storage root and files next to it.  A place on  *)
(* the disk is the sequence of names that lead to it from "/".             *)
(***************************************************************************)
\* os.path.relpath(path, start) of two absolute paths
relpath(path, start) ==
    LET start_list == DropEmpty(SplitSlash(abspath(start)))
        path_list == DropEmpty(SplitSlash(abspath(path)))
        i == Len(CommonPrefix(start_list, path_list))
        rel_list == [k \in 1..(Len(start_list) - i) |-> DotDot]
                        \o SubSeq(path_list, i + 1, Len(path_list))
    IN  IF rel_list = <<>> THEN Dot ELSE JoinSlash(rel_list)

\* the disk: /r/f is the storage root with a file and a directory in it,
\* /r/fa and /a are directories outside it, /r/a is a file next to it
Disk ==
    [dirs |-> {<<>>, <<<<"r">>>>, <<<<"r">>, <<"f">>>>, <<<<"r">>, <<"f">>, <<"a">>>>,
               <<<<"r">>, <<"f", "a">>>>, <<<<"a">>>>},
     files |-> {<<<<"r">>, <<"f">>, <<"f">>>>, <<<<"r">>, <<"f">>, <<"a">>, <<"r">>>>,
                <<<<"r">>, <<"a">>>>, <<<<"r">>, <<"f", "a">>, <<"a">>>>,
                <<<<"a">>, <<"f">>>>}]

NoPlace == [ok |-> FALSE, place |-> <<>>]

\* the place the file system finds for a path, name by name from `at`: every
\* name but the last must lead to a directory
RECURSIVE LookupFrom(_, _, _)
LookupFrom(disk, at, comps) ==
    IF comps = <<>> THEN [ok |-> TRUE, place |-> at]
    ELSE IF at \notin disk.dirs THEN NoPlace
         ELSE IF comps[1] = <<>> \/ comps[1] = Dot
              THEN LookupFrom(disk, at, Tail(comps))
              ELSE IF comps[1] = DotDot
                   THEN LookupFrom(disk, IF at = <<>> THEN <<>> ELSE DirOf(at),
                                   Tail(comps))
                   ELSE IF Append(at, comps[1]) \in disk.dirs \cup disk.files
                        THEN LookupFrom(disk, Append(at, comps[1]), Tail(comps))
                        ELSE NoPlace

\* the place of an absolute path on the disk
Lookup(disk, path) == LookupFrom(disk, <<>>, SplitSlash(path))

\* the public_ids of the FileRecords LocalStorage.list_files(prefix) returns:
\* os.walk goes through the directory root/prefix names, and each file found
\* is reported by its path relative to the root
list_files_public_ids(disk, prefix) ==
    LET search_path == os_path_join(full_path, prefix)
        top == Lookup(disk, search_path)
    IN  IF ~top.ok \/ top.place \notin disk.dirs THEN {}
        ELSE {relpath(os_path_join(search_path,
                                   JoinSlash(SubSeq(place, Len(top.place) + 1,
                                                    Len(place)))),
                      full_path) :
                 place \in {q \in disk.files : IsPrefixOf(top.place, q)}}

InitList ==
    /\ lprefix \in UNION {[1..k -> PathAlphabet] : k \in 0..MaxRel}
    /\ lfound = {}
    /\ lpc = "start"
    /\ RestIdle
    /\ SanitizeIdle
    /\ JoinIdle
    /\ StorageIdle
    /\ CloudIdle
    /\ ConvertIdle
    /\ ComposeIdle

ListFiles ==
    /\ lpc = "start"
    /\ lfound' = list_files_public_ids(Disk, lprefix)
    /\ lpc' = "done"
    /\ UNCHANGED <<lprefix, restVars, sanitizeVars, joinVars, storageVars, cloudVars,
                   convertVars, composeVars>>

NextList == ListFiles

SpecList == InitList /\ [][NextList]_vars

\* C11: every public_id that list_files returns, whatever the prefix, is a
\* relative path that resolves to a place strictly inside the storage root:
\* list_files reports no file outside the root.
C11_ListedInsideRoot ==
    lpc = "done" =>
        \A public_id \in lfound :
            /\ public_id[1] # "/"
            /\ InsideRoot(Resolve(public_id))
            /\ Resolve(public_id) # RootDir

(***************************************************************************)
(* LocalStorage.save: the order of its changes to the file system          *)
(***************************************************************************)
\* C12: when save removes a file found under another name than the target's,
\* it has written the new content to the target before: no removal comes
\* before the write.
C12_WriteBeforeRemove ==
    last.kind = "save" =>
        \A i \in 1..Len(last.steps) :
            last.steps[i].op = "remove" =>
                \E j \in 1..(i - 1) : last.steps[j].op = "write"

(***************************************************************************)
(* Resolution of a file id by download, delete and save                    *)
(***************************************************************************)
\* the five forms of a file id, in the order of the claim: the raw id, its
\* decoded form, that re-encoded, the sanitized form, that re-encoded
FormsInOrder(file_id) ==
    <<file_id, unquote(file_id), quote(unquote(file_id)),
      sanitize_relative_path(file_id), quote(sanitize_relative_path(file_id))>>

\* a form names something that exists inside the root
FormExists(f, d, form) ==
    /\ ~safe_place(form).raised
    /\ ExistsIn(f, d, safe_place(form).path)

\* the entries of the directory of the file id whose sanitized name is the
\* sanitized name of the file id
ScanMatches(f, d, file_id) ==
    LET cut == RFind(file_id, "/")
        directory == safe_place(SubSeq(file_id, 1, cut - 1))
        name == SubSeq(file_id, cut + 1, Len(file_id))
    IN  IF directory.raised \/ directory.path \notin d THEN {}
        ELSE {Append(directory.path, a) :
                 a \in {b \in Listdir(f, d, directory.path) :
                           sanitize_filename(b) = sanitize_filename(name)}}

\* what the resolution must give: the first form that exists, and a scan
\* match only when no form exists
ResolutionsInOrder(f, d, file_id) ==
    LET forms == FormsInOrder(file_id)
        live == {i \in 1..5 : FormExists(f, d, forms[i])}
    IN  IF live # {}
        THEN {[found |-> TRUE,
               path |-> safe_place(forms[CHOOSE i \in live : \A j \in live : i <= j]).path]}
        ELSE IF ScanMatches(f, d, file_id) = {} THEN {NotFound}
             ELSE {[found |-> TRUE, path |-> q] : q \in ScanMatches(f, d, file_id)}

\* C13: download, delete and save resolve a file id to the first of its raw,
\* decoded, re-encoded, sanitized and sanitized-re-encoded forms that exists,
\* and to an entry of the target directory whose sanitized name equals the
\* sanitized target name only when no form exists (to nothing when there is
\* no such entry either).
C13_ResolutionOrder ==
    [][(ops' = ops + 1 /\ last'.kind \in {"download", "delete", "save"})
          => last'.resolved \in ResolutionsInOrder(files, WithRoot(dirs), last'.arg)]_vars

\* a download of "2024/June/x%20x.html" was given the file of that very name
\* while the file under the sanitized name "2024/June/x x.html" was there too
C13_Witness ==
    /\ last.kind = "download"
    /\ last.resolved.found
    /\ last.resolved.path = Segments(last.arg)
    /\ sanitize_relative_path(last.arg) # last.arg
    /\ Segments(sanitize_relative_path(last.arg)) \in DOMAIN files

(***************************************************************************)
(* LocalStorage.download: what it raises                                   *)
(***************************************************************************)
\* C14: a download raises FileNotFoundError, and nothing else, when no form
\* of the file id and no entry of the target directory resolves it to a file,
\* and in every other case raises nothing and returns the content of the
\* file it resolved to.
C14_DownloadOrNotFound ==
    last.kind = "download" =>
        IF last.resolved.found /\ last.resolved.path \in DOMAIN files
        THEN /\ last.raised = ""
             /\ last.ok
             /\ last.content = files[last.resolved.path].content
        ELSE last.raised = "FileNotFoundError" /\ ~last.ok

(***************************************************************************)
(* Cloud runs: CloudinaryStorage.save, delete and list_files are called    *)
(* one after the other.  The remote service is the environment: a call to  *)
(* it answers or fails (network error, API error), destroy answers "ok"    *)
(* for a resource it holds and "not found" for one it does not, and        *)
(* resources answers the matching resources in an order of its choosing.   *)
(***************************************************************************)
MaxCloudOps == 3

\* the public_ids the calls are made with
CloudIds == {<<"n", "/", "a">>, <<"n", "/", "b">>, <<"m", "/", "a">>}

CloudPrefixes == {<<>>, <<"n", "/">>}

\* the ways a call to the remote service ends
RemoteOutcomes == {"answers", "fails"}

\* CloudinaryStorage.save: what it returns, the remote upload having ended
\* as `outcome` says
cloud_save(outcome) == outcome = "answers"

\* CloudinaryStorage.delete: what it returns, the remote destroy having ended
\* as `outcome` says; the answer of destroy is not looked at
cloud_delete(outcome) == [result |-> outcome = "answers", raised |-> FALSE]

\* the FileRecord CloudinaryStorage.list_files builds for one resource
CloudRecord(public_id, resource) ==
    [public_id |-> public_id,
     filename |-> SubSeq(public_id, RFind(public_id, "/") + 1, Len(public_id)),
     size |-> resource.bytes, created_at |-> resource.created_at]

\* the answers cloudinary.api.resources may give for a prefix: the resources
\* whose public_id starts with it, in any order
RemoteListings(prefix) ==
    LET found == {id \in DOMAIN resources : IsPrefixOf(prefix, id)}
        n == Cardinality(found)
    IN  {o \in [1..n -> found] : \A i, j \in 1..n : i # j => o[i] # o[j]}

\* CloudinaryStorage.list_files: the records of the answer, in its order
cloud_list_files(answer) == answer

InitCloud ==
    /\ resources = <<>>
    /\ cnow = 1
    /\ cops = 0
    /\ clast = NoCloudCall
    /\ RestIdle
    /\ SanitizeIdle
    /\ JoinIdle
    /\ StorageIdle
    /\ ListIdle
    /\ ConvertIdle
    /\ ComposeIdle

CloudSave ==
    /\ cops < MaxCloudOps
    /\ \E file_id \in CloudIds, content \in Contents, outcome \in RemoteOutcomes :
          /\ resources' = IF outcome = "answers"
                          THEN Put(resources, file_id,
                                   [bytes |-> Len(content), created_at |-> cnow])
                          ELSE resources
          /\ clast' = [kind |-> "save", arg |-> file_id, result |-> cloud_save(outcome),
                       raised |-> FALSE, existed |-> file_id \in DOMAIN resources,
                       failed |-> outcome = "fails", listing |-> <<>>]
    /\ cops' = cops + 1
    /\ cnow' = cnow + 1
    /\ UNCHANGED <<restVars, sanitizeVars, joinVars, storageVars, listVars, convertVars,
                   composeVars>>

CloudDelete ==
    /\ cops < MaxCloudOps
    /\ \E file_id \in CloudIds, outcome \in RemoteOutcomes :
          LET out == cloud_delete(outcome)
          IN  /\ resources' = IF outcome = "answers" /\ file_id \in DOMAIN resources
                              THEN Remove(resources, file_id) ELSE resources
              /\ clast' = [kind |-> "delete", arg |-> file_id, result |-> out.result,
                           raised |-> out.raised,
                           existed |-> file_id \in DOMAIN resources,
                           failed |-> outcome = "fails", listing |-> <<>>]
    /\ cops' = cops + 1
    /\ cnow' = cnow + 1
    /\ UNCHANGED <<restVars, sanitizeVars, joinVars, storageVars, listVars, convertVars,
                   composeVars>>

CloudListFiles ==
    /\ cops < MaxCloudOps
    /\ \E prefix \in CloudPrefixes, outcome \in RemoteOutcomes :
          \E answer \in (IF outcome = "answers" THEN RemoteListings(prefix) ELSE {<<>>}) :
              LET listed == cloud_list_files(answer)
              IN  clast' = [kind |-> "list", arg |-> prefix, result |-> TRUE,
                            raised |-> FALSE, existed |-> FALSE,
                            failed |-> outcome = "fails",
                            listing |-> [i \in 1..Len(listed) |->
                                            CloudRecord(listed[i], resources[listed[i]])]]
    /\ cops' = cops + 1
    /\ cnow' = cnow + 1
    /\ UNCHANGED <<resources, restVars, sanitizeVars, joinVars, storageVars, listVars,
                   convertVars, composeVars>>

NextCloud == CloudSave \/ CloudDelete \/ CloudListFiles

SpecCloud == InitCloud /\ [][NextCloud]_vars

\* C15: delete and save never raise; they return TRUE when the operation
\* succeeded and FALSE when it failed, a delete of a file that is not there
\* being a failure.
C15_BooleanResults ==
    clast.kind \in {"delete", "save"} =>
        /\ ~clast.raised
        /\ clast.result <=> (~clast.failed /\ (clast.kind = "delete" => clast.existed))

\* C16: the FileRecords list_files returns are ordered newest first: their
\* created_at never increases along the list.
C16_NewestFirst ==
    clast.kind = "list" =>
        \A i, j \in 1..Len(clast.listing) :
            i < j => clast.listing[i].created_at >= clast.listing[j].created_at

(***************************************************************************)
(* Conversion runs: PDFService.generate_single_page_pdf (app/services/     *)
(* pdf.py) converts one HTML document.  The screenshot service is the      *)
(* environment: it answers the one request with a status and a body, or    *)
(* the request ends in an exception (connection error, timeout).           *)
(***************************************************************************)
\* self.browserless_token: None, the empty string, or a token
Tokens == {"None", "", "t"}

\* `if self.browserless_token:`
Truthy(tok) == tok # "None" /\ tok # ""

\* the documents converted, tag by tag
Htmls == {<<"<html>", "<head>", "<p>">>, <<"<html>", "<p>">>, <<"<p>">>}

\* the <style> block of SINGLE_PAGE_CSS
style_block == "<style>"

\* the sequence with `added` put in right after the first `tag`
RECURSIVE InsertAfterFirst(_, _, _)
InsertAfterFirst(seq, tag, added) ==
    IF seq = <<>> THEN <<>>
    ELSE IF seq[1] = tag THEN <<tag>> \o added \o Tail(seq)
         ELSE <<seq[1]>> \o InsertAfterFirst(Tail(seq), tag, added)

\* PDFService._inject_single_page_css
inject_single_page_css(html_content) ==
    IF InSeq("<head>", html_content)
    THEN InsertAfterFirst(html_content, "<head>", <<style_block>>)
    ELSE IF InSeq("<html>", html_content)
         THEN InsertAfterFirst(html_content, "<html>",
                               <<"<head>", style_block, "</head>">>)
         ELSE <<"<html>", "<head>", style_block, "</head>", "<body>">>
                  \o html_content \o <<"</body>", "</html>">>

\* the bodies of an answer: none, a PNG image, bytes that are no image
PngBytes == <<"P", "N", "G">>

Bodies == {<<>>, PngBytes, <<"o", "o", "p", "s">>}

Statuses == {200, 201, 204, 301, 400, 401, 404, 429, 500, 503}

\* what requests.post may end in
Replies ==
    [kind : {"response"}, status : Statuses, body : Bodies]
        \cup [kind : {"ConnectionError", "Timeout"}, status : {0}, body : {<<>>}]

\* requests.Response.ok: the status is no client or server error
response_ok(status) == status < 400

\* a request that hands back the body of any response
post_request_any_status(answer) ==
    IF answer.kind # "response" THEN None ELSE Some(answer.body)

\* _post_request: the body of a response that is ok, None otherwise
post_request(answer) ==
    IF answer.kind # "response" THEN None
    ELSE IF response_ok(answer.status) THEN Some(answer.body)
         ELSE None

\* `if False:` in front of the Playwright block
PlaywrightEnabled == FALSE

\* Image.open(BytesIO(image_bytes)) reads the bytes as an image, or raises
IsImage(image_bytes) == image_bytes = PngBytes

InitConvert ==
    /\ token \in Tokens
    /\ html \in Htmls
    /\ sent = <<>>
    /\ reply = NoReply
    /\ screenshot = None
    /\ posts = 0
    /\ launches = 0
    /\ composes = 0
    /\ ended = "none"
    /\ cpc = "start"
    /\ RestIdle
    /\ SanitizeIdle
    /\ JoinIdle
    /\ StorageIdle
    /\ ListIdle
    /\ CloudIdle
    /\ ComposeIdle

\* generate_single_page_pdf up to the await: with a token the prepared HTML
\* is posted; without one, screenshot stays None and RuntimeError is raised
ConvertStart ==
    /\ cpc = "start"
    /\ IF Truthy(token)
       THEN /\ sent' = inject_single_page_css(html)
            /\ posts' = posts + 1
            /\ cpc' = "in_flight"
            /\ UNCHANGED ended
       ELSE /\ ended' = "error"
            /\ cpc' = "done"
            /\ UNCHANGED <<sent, posts>>
    /\ UNCHANGED <<token, html, reply, screenshot, launches, composes,
                   restVars, sanitizeVars, joinVars, storageVars, listVars, cloudVars,
                   composeVars>>

\* the request ends: _post_request returns the screenshot or None
BrowserlessAnswers ==
    /\ cpc = "in_flight"
    /\ \E answer \in Replies :
          /\ reply' = answer
          /\ screenshot' = post_request(answer)
    /\ cpc' = "answered"
    /\ UNCHANGED <<token, html, sent, posts, launches, composes, ended,
                   restVars, sanitizeVars, joinVars, storageVars, listVars, cloudVars,
                   composeVars>>

\* generate_single_page_pdf after the await: RuntimeError when screenshot is
\* None or empty, else _compose_pdf, which raises when the bytes are no image
ConvertFinish ==
    /\ cpc = "answered"
    /\ launches' = IF PlaywrightEnabled THEN launches + 1 ELSE launches
    /\ IF ~screenshot.some \/ screenshot.bytes = <<>>
       THEN /\ ended' = "error"
            /\ UNCHANGED composes
       ELSE /\ composes' = composes + 1
            /\ ended' = IF IsImage(screenshot.bytes) THEN "pdf" ELSE "error"
    /\ cpc' = "done"
    /\ UNCHANGED <<token, html, sent, reply, screenshot, posts,
                   restVars, sanitizeVars, joinVars, storageVars, listVars, cloudVars,
                   composeVars>>

NextConvert == ConvertStart \/ BrowserlessAnswers \/ ConvertFinish

SpecConvert == InitConvert /\ [][NextConvert]_vars

MaxHalfInches == 4

MaxQuarterInches == 3

Rat(n, d) == [n |-> n, d |-> d]

RLe(a, b) == a.n * b.d <= b.n * a.d

RLt(a, b) == a.n * b.d < b.n * a.d

REq(a, b) == a.n * b.d = b.n * a.d

\* min(a, b) and max(a, b) of Python: the first argument when they are equal
RMin(a, b) == IF RLt(b, a) THEN b ELSE a

RMax(a, b) == IF RLt(a, b) THEN b ELSE a

IMax(a, b) == IF a < b THEN b ELSE a

IMin(a, b) == IF b < a THEN b ELSE a

\* int(x): truncation towards zero
Trunc(x) == IF x.n >= 0 THEN x.n \div x.d ELSE -((-x.n) \div x.d)

Times(x, k) == Rat(x.n * k, x.d)

One == Rat(1, 1)

\* 0.01, the smallest ratio _compose_pdf works with
MinRatio == Rat(1, 100)

\* 0.1, the smallest max_scale generate_single_page_pdf hands on
MinMaxScale == Rat(1, 10)

\* the least content width
MinContentWidth == 10

\* the option values of a request
PageInches == {Rat(n, 2) : n \in 0..MaxHalfInches}

MarginInches == {Rat(n, 4) : n \in 0..MaxQuarterInches}

Dpis == {150}

ScalePercents == {Rat(0 - 50, 1), Rat(1, 2), Rat(50, 1), Rat(100, 1), Rat(300, 1)}

MaxScales == {Rat(1, 20), Rat(1, 2), Rat(2, 1)}

\* the sizes of the screenshot
ImageWidths == {1, 7, 100, 2400}

ImageHeights == {1, 100, 1200}

Requests ==
    [page_width_in : PageInches, page_height_in : PageInches,
     margin_in : MarginInches, dpi : Dpis, scale : ScalePercents,
     max_scale : MaxScales, allow_scale_up : BOOLEAN,
     width : ImageWidths, height : ImageHeights]

\* manual_scale as generate_single_page_pdf computes it from the option
manual_scale_of(scale) ==
    LET manual_scale == Rat(scale.n, scale.d * 100)
    IN  IF manual_scale.n <= 0 THEN One ELSE manual_scale

\* max_scale as generate_single_page_pdf computes it from the option
max_scale_of(option) == RMax(MinMaxScale, option)

\* a scale that takes the manual scale as it comes
final_scale_as_asked(max_allowed, desired_ratio) == RMax(MinRatio, desired_ratio)

\* scale_ratio = max(0.01, min(max_allowed, desired_ratio))
final_scale(max_allowed, desired_ratio) ==
    RMax(MinRatio, RMin(max_allowed, desired_ratio))

\* a page that keeps its configured height
final_page_height_fixed(page_height_px, required_height) == page_height_px

\* if required_height > page_height_px: page_height_px = required_height
final_page_height(page_height_px, required_height) ==
    IF required_height > page_height_px THEN required_height ELSE page_height_px

\* the paste offset along one axis of a canvas `length` long for an image
\* `size` long
paste_offset(length, size, margin_px) ==
    LET available == length - size
        centered == margin_px + IMax(0, (available \div 2) - margin_px)
        capped == IMin(centered, length - size - margin_px)
    IN  IMax(margin_px, capped)

\* what _compose_pdf computes for a request
compose_pdf(r) ==
    LET page_width_px == IMax(1, Trunc(Times(r.page_width_in, r.dpi)))
        page_height_px == IMax(1, Trunc(Times(r.page_height_in, r.dpi)))
        margin_px == IMax(0, Trunc(Times(r.margin_in, r.dpi)))
        content_width == IMax(MinContentWidth, page_width_px - margin_px * 2)
        width_ratio == RMax(MinRatio, Rat(content_width, r.width))
        max_scale == max_scale_of(r.max_scale)
        max_allowed == IF r.allow_scale_up THEN RMin(width_ratio, max_scale)
                       ELSE RMin(width_ratio, One)
        asked == RMax(MinRatio, manual_scale_of(r.scale))
        desired_ratio == IF ~r.allow_scale_up THEN RMin(asked, One)
                         ELSE RMin(asked, max_scale)
        scale_ratio == final_scale(max_allowed, desired_ratio)
        scaled_width == IMax(1, Trunc(Times(scale_ratio, r.width)))
        scaled_height == IMax(1, Trunc(Times(scale_ratio, r.height)))
        required_height == scaled_height + margin_px * 2
        canvas_height == final_page_height(page_height_px, required_height)
    IN  [page_width_px |-> page_width_px, page_height_px |-> page_height_px,
         margin_px |-> margin_px, content_width |-> content_width,
         max_allowed |-> max_allowed, desired_ratio |-> desired_ratio,
         scale_ratio |-> scale_ratio,
         scaled_size |-> <<scaled_width, scaled_height>>,
         canvas |-> <<page_width_px, canvas_height>>,
         offset_x |-> paste_offset(page_width_px, scaled_width, margin_px),
         offset_y |-> paste_offset(canvas_height, scaled_height, margin_px)]

InitCompose ==
    /\ request \in Requests
    /\ page = <<>>
    /\ ppc = "start"
    /\ RestIdle
    /\ SanitizeIdle
    /\ JoinIdle
    /\ StorageIdle
    /\ ListIdle
    /\ CloudIdle
    /\ ConvertIdle

Compose ==
    /\ ppc = "start"
    /\ page' = compose_pdf(request)
    /\ ppc' = "done"
    /\ UNCHANGED <<request, restVars, sanitizeVars, joinVars, storageVars, listVars,
                   cloudVars, convertVars>>

NextCompose == Compose

SpecCompose == InitCompose /\ [][NextCompose]_vars

\* C18: the final scale is max(0.01, min(max_allowed, desired)); it is
\* above 0, at most max_allowed, at most the clamped manual scale, and at
\* most 1 when scale-up is not allowed.
C18_FinalScale ==
    ppc = "done" =>
        /\ REq(page.scale_ratio,
               RMax(MinRatio, RMin(page.max_allowed, page.desired_ratio)))
        /\ page.scale_ratio.n > 0
        /\ RLe(page.scale_ratio, page.max_allowed)
        /\ RLe(page.scale_ratio, page.desired_ratio)
        /\ ~request.allow_scale_up => RLe(page.scale_ratio, One)

\* a manual scale of 300% has been cut down to what the width allows, with
\* scale-up allowed
C18_Witness ==
    /\ ppc = "done"
    /\ request.allow_scale_up
    /\ request.scale = Rat(300, 1)
    /\ RLt(page.max_allowed, page.desired_ratio)
    /\ REq(page.scale_ratio, page.max_allowed)
    /\ RLt(One, page.scale_ratio)

\* C19: the pasted image keeps margin_px to each of the four edges of the
\* canvas.
C19_InsideMargins ==
    ppc = "done" =>
        /\ page.offset_x >= page.margin_px
        /\ page.offset_y >= page.margin_px
        /\ page.offset_x + page.scaled_size[1] <= page.canvas[1] - page.margin_px
        /\ page.offset_y + page.scaled_size[2] <= page.canvas[2] - page.margin_px

\* C20: the final page height is the configured page height when the scaled
\* image with its two margins fits in it, and the height of the scaled image
\* with its two margins otherwise; it is below neither, and the image is
\* pasted whole.
C20_NeverCrops ==
    ppc = "done" =>
        LET needed == page.scaled_size[2] + 2 * page.margin_px
        IN  /\ page.canvas[2] = IF needed <= page.page_height_px
                                THEN page.page_height_px ELSE needed
            /\ page.canvas[2] >= page.page_height_px
            /\ page.canvas[2] >= needed
            /\ page.offset_y >= 0
            /\ page.offset_y + page.scaled_size[2] <= page.canvas[2]

\* a page has grown to hold an image taller than the configured height
C20_Witness ==
    /\ ppc = "done"
    /\ page.page_height_px > 1
    /\ page.margin_px > 0
    /\ page.canvas[2] > page.page_height_px
    /\ page.canvas[2] = page.scaled_size[2] + 2 * page.margin_px

\* C21: a screenshot wider than the content width, page width less the two
\* margins, is scaled to a width that is at most the content width; and with
\* scale-up not allowed and a manual scale of 100% the scaled width is at
\* most the content width and at most the original width.
C21_FitsContentWidth ==
    ppc = "done" =>
        LET content == page.page_width_px - 2 * page.margin_px
        IN  /\ request.width > content => page.scaled_size[1] <= content
            /\ (~request.allow_scale_up /\ request.scale = Rat(100, 1)) =>
                   /\ page.scaled_size[1] <= content
                   /\ page.scaled_size[1] <= request.width

(***************************************************************************)
(* Colour runs: PDFService._parse_color on one value.  The value is None   *)
(* or a string; a string is an optional "#" followed by characters of      *)
(* ColourAlphabet.                                                         *)
(***************************************************************************)
\* longest string after the optional "#"
MaxColourLen == 6

\* two hex digits, a letter that is no hex digit, a sign and a space
ColourAlphabet == {"a", "5", "g", "-", " "}

ColourValues ==
    {None} \cup
    {Some(hash \o body) :
        hash \in {<<>>, <<"#">>},
        body \in UNION {[1..k -> ColourAlphabet] : k \in 0..MaxColourLen}}

White == <<255, 255, 255>>

NoInt == [ok |-> FALSE, n |-> 0]

\* int(s, 16) on a slice s of two characters: two hex digits; or one hex
\* digit after a sign or next to a space, which int() trims; anything else
\* is a ValueError
int_16(s) ==
    CASE IsHex(s[1]) /\ IsHex(s[2]) ->
             [ok |-> TRUE, n |-> 16 * HexVal(s[1]) + HexVal(s[2])]
      [] s[1] = "-" /\ IsHex(s[2]) -> [ok |-> TRUE, n |-> 0 - HexVal(s[2])]
      [] s[1] = "+" /\ IsHex(s[2]) -> [ok |-> TRUE, n |-> HexVal(s[2])]
      [] IsSpace(s[1]) /\ IsHex(s[2]) -> [ok |-> TRUE, n |-> HexVal(s[2])]
      [] IsHex(s[1]) /\ IsSpace(s[2]) -> [ok |-> TRUE, n |-> HexVal(s[1])]
      [] OTHER -> NoInt

\* "".join(ch * 2 for ch in value)
RECURSIVE DoubleEach(_)
DoubleEach(s) ==
    IF s = <<>> THEN <<>> ELSE <<s[1], s[1]>> \o DoubleEach(Tail(s))

parse_color(v) ==
    IF ~v.some \/ v.bytes = <<>> THEN White
    ELSE LET stripped == Strip(v.bytes)
             bare == IF stripped # <<>> /\ stripped[1] = "#"
                     THEN Tail(stripped) ELSE stripped
             digits == IF Len(bare) = 3 THEN DoubleEach(bare) ELSE bare
         IN  IF Len(digits) = 6
             THEN LET r == int_16(SubSeq(digits, 1, 2))
                      g == int_16(SubSeq(digits, 3, 4))
                      b == int_16(SubSeq(digits, 5, 6))
                  IN  IF r.ok /\ g.ok /\ b.ok THEN <<r.n, g.n, b.n>> ELSE White
             ELSE White

InitColour ==
    /\ value \in ColourValues
    /\ rgb = <<>>
    /\ kpc = "start"
    /\ RouteIdle
    /\ PathIdle
    /\ CleanupIdle
    /\ SanitizeIdle
    /\ JoinIdle
    /\ StorageIdle
    /\ ListIdle
    /\ CloudIdle
    /\ ConvertIdle
    /\ ComposeIdle

ParseColor ==
    /\ kpc = "start"
    /\ rgb' = parse_color(value)
    /\ kpc' = "done"
    /\ UNCHANGED <<value, sanitizeVars, joinVars, storageVars, listVars,
                   cloudVars, convertVars, composeVars, routeVars, pathVars,
                   cleanupVars>>

NextColour == ParseColor

SpecColour == InitColour /\ [][NextColour]_vars

\* the strings the claim calls hex colours: an optional "#" and then three
\* or six hex digits, surrounding blanks aside
HexDigitsOf(text) ==
    LET trimmed == Strip(text)
    IN  IF trimmed # <<>> /\ trimmed[1] = "#" THEN Tail(trimmed) ELSE trimmed

IsHexColour(v) ==
    /\ v.some
    /\ Len(HexDigitsOf(v.bytes)) \in {3, 6}
    /\ \A i \in 1..Len(HexDigitsOf(v.bytes)) : IsHex(HexDigitsOf(v.bytes)[i])

\* the (r, g, b) a hex colour stands for
HexColourValue(v) ==
    LET d == HexDigitsOf(v.bytes)
        pair(x, y) == 16 * HexVal(x) + HexVal(y)
    IN  IF Len(d) = 3
        THEN <<pair(d[1], d[1]), pair(d[2], d[2]), pair(d[3], d[3])>>
        ELSE <<pair(d[1], d[2]), pair(d[3], d[4]), pair(d[5], d[6])>>

\* C22: the parser returns the (r, g, b) of every hex colour of three or six
\* digits, with or without "#", and white for every other value: None, the
\* empty string and every string that is no hex colour.
C22_HexOrWhite ==
    kpc = "done" =>
        rgb = IF IsHexColour(value) THEN HexColourValue(value) ELSE White

(***************************************************************************)
(* Routes: upload_file and download_file of routes/newsletter.py, each     *)
(* with a StorageManager of its own on the local backend.                  *)
(***************************************************************************)
\* requests served in one run
MaxRequests == 2

\* Config.UPLOAD_ALLOWED_EXTENSIONS
UPLOAD_ALLOWED_EXTENSIONS ==
    {<<"h", "t", "m", "l">>, <<"h", "t", "m">>, <<"j", "p", "g">>,
     <<"j", "p", "e", "g">>, <<"p", "n", "g">>, <<"g", "i", "f">>,
     <<"b", "m", "p">>, <<"w", "e", "b", "p">>}

\* the names of the files a form posts: none selected, a newsletter and a
\* program
PostedNames == {<<>>, <<"x", ".", "h", "t", "m", "l">>, <<"x", ".", "e", "x", "e">>}

\* the file ids the download route is asked for: those of the stored and the
\* uploaded files, those that name none, and one that is the percent-encoded
\* form of the percent-encoded name
RouteIds ==
    KnownIds
        \cup {folder_path(June) \o <<"/">> \o n : n \in PostedNames \ {<<>>}}
        \cup {folder_path(June)
                  \o <<"/", "x", "%", "2", "5", "2", "0", "x", ".", "h", "t", "m", "l">>}

RouteTables == TablesOn(RouteIds, PathsOf(RouteIds), NamesOf(PathsOf(RouteIds)))

\* str.endswith
EndsWith(s, suffix) ==
    /\ Len(s) >= Len(suffix)
    /\ SubSeq(s, Len(s) - Len(suffix) + 1, Len(s)) = suffix

\* the content type download_file derives from the file name
content_type_of(filename) ==
    LET lower == [i \in 1..Len(filename) |-> Lower(filename[i])]
    IN  CASE EndsWith(lower, <<".", "h", "t", "m", "l">>) -> "text/html"
          [] EndsWith(lower, <<".", "t", "x", "t">>) -> "text/plain"
          [] EndsWith(lower, <<".", "j", "s", "o", "n">>) -> "application/json"
          [] EndsWith(lower, <<".", "x", "m", "l">>) -> "application/xml"
          [] EndsWith(lower, <<".", "c", "s", "s">>) -> "text/css"
          [] EndsWith(lower, <<".", "j", "s">>) -> "application/javascript"
          [] OTHER -> "application/octet-stream"

\* the name download_file puts into Content-Disposition
disposition_filename(file_id) == unquote(basename(file_id))

Redirect(route, arg, flash) ==
    [route |-> route, arg |-> arg, kind |-> "redirect", flash |-> flash,
     filename |-> <<>>, content_type |-> "", content |-> <<>>]

InitRoutes ==
    /\ \E store \in InitialStores : files = store.files /\ dirs = store.dirs
    /\ today = June
    /\ clock = 1
    /\ listCalls = 0
    /\ ops = 0
    /\ last = NoCall
    /\ prev = NoCall
    /\ known = RouteTables
    /\ resp = NoResponse
    /\ backendUploads = 0
    /\ served = 0
    /\ SanitizeIdle
    /\ JoinIdle
    /\ ListIdle
    /\ CloudIdle
    /\ ConvertIdle
    /\ ComposeIdle
    /\ ColourIdle
    /\ PathIdle
    /\ CleanupIdle

\* upload_file: POST /newsletter-upload
UploadFile ==
    /\ served < MaxRequests
    /\ \E has_part \in BOOLEAN, filename \in PostedNames, content \in Contents :
          IF ~has_part
          THEN /\ resp' = Redirect("upload_file", filename, "No file part")
               /\ UNCHANGED <<files, dirs, backendUploads>>
          ELSE IF filename = <<>>
               THEN /\ resp' = Redirect("upload_file", filename, "No selected file")
                    /\ UNCHANGED <<files, dirs, backendUploads>>
               ELSE LET clean_name == Sanitized(filename)
                        out == local_upload(files, WithRoot(dirs), content,
                                            clean_name, today, clock)
                    IN  /\ files' = out.files
                        /\ dirs' = out.dirs
                        /\ backendUploads' = backendUploads + 1
                        /\ resp' = Redirect("upload_file", filename,
                                            IF out.result.success
                                            THEN "File successfully uploaded"
                                            ELSE "Upload failed")
    /\ served' = served + 1
    /\ clock' = clock + 1
    /\ UNCHANGED <<today, listCalls, ops, last, prev, known, sanitizeVars, joinVars,
                   listVars, cloudVars, convertVars, composeVars, colourVars,
                   pathVars, cleanupVars>>

\* download_file: GET /download/<path:file_id>
DownloadFile ==
    /\ served < MaxRequests
    /\ \E file_id \in RouteIds :
          \E existing \in resolve_existing_path(files, WithRoot(dirs), file_id) :
              LET out == local_download(files, existing)
                  filename == disposition_filename(file_id)
              IN  resp' = CASE out.raised = "" ->
                                   [route |-> "download_file", arg |-> file_id,
                                    kind |-> "attachment", flash |-> "",
                                    filename |-> filename,
                                    content_type |-> content_type_of(filename),
                                    content |-> out.content]
                            [] out.raised = "FileNotFoundError" ->
                                   Redirect("download_file", file_id, "File not found")
                            [] OTHER ->
                                   Redirect("download_file", file_id, "An error occurred")
    /\ dirs' = WithRoot(dirs)
    /\ served' = served + 1
    /\ clock' = clock + 1
    /\ UNCHANGED <<files, today, listCalls, ops, last, prev, known, backendUploads,
                   sanitizeVars, joinVars, listVars, cloudVars, convertVars,
                   composeVars, colourVars,
                   pathVars, cleanupVars>>

NextRoutes == UploadFile \/ DownloadFile

SpecRoutes == InitRoutes /\ [][NextRoutes]_vars

\* what follows the last dot of a name, in lower case; nothing for a name
\* without a dot
ExtensionOf(filename) ==
    LET dot == RFind(filename, ".")
    IN  IF dot = 0 THEN <<>>
        ELSE [i \in 1..(Len(filename) - dot) |-> Lower(filename[dot + i])]

\* C23: an upload of a file whose extension is not among the allowed ones is
\* rejected before any storage I/O: no backend upload call is made, no file
\* is stored, and the response says the upload did not happen.
C23_DisallowedRejected ==
    [][(/\ served' = served + 1
        /\ resp'.route = "upload_file"
        /\ resp'.arg # <<>>
        /\ ExtensionOf(resp'.arg) \notin UPLOAD_ALLOWED_EXTENSIONS)
       => (/\ backendUploads' = backendUploads
           /\ files' = files
           /\ resp'.flash # "File successfully uploaded")]_vars

\* C24: a download response is an attachment whose file name is the
\* sanitized form of the last segment of the file id, and holds no percent
\* sign, quote, backslash or slash.
C24_SanitizedDisposition ==
    (resp.route = "download_file" /\ resp.kind = "attachment") =>
        /\ resp.filename = sanitize_filename(basename(resp.arg))
        /\ \A i \in 1..Len(resp.filename) :
               resp.filename[i] \notin {"%", "\"", "\\", "/"}

(***************************************************************************)
(* Path runs: sanitize_relative_path on one file id.                       *)
(***************************************************************************)
\* longest file id handed to sanitize_relative_path
MaxPathLen == 5

\* a letter, the dot, both separators, and the percent sign with the two
\* hex digits that spell the "/"
PathIdAlphabet == {"x", ".", "/", "\\", "%", "2", "F"}

InitPath ==
    /\ pathId \in UNION {[1..k -> PathIdAlphabet] : k \in 0..MaxPathLen}
    /\ pathClean = <<>>
    /\ pathPc = "start"
    /\ SanitizeIdle
    /\ JoinIdle
    /\ StorageIdle
    /\ ListIdle
    /\ CloudIdle
    /\ ConvertIdle
    /\ ComposeIdle
    /\ ColourIdle
    /\ RouteIdle
    /\ CleanupIdle

SanitizeRelativePath ==
    /\ pathPc = "start"
    /\ pathClean' = sanitize_relative_path(pathId)
    /\ pathPc' = "done"
    /\ UNCHANGED <<pathId, sanitizeVars, joinVars, storageVars, listVars,
                   cloudVars, convertVars, composeVars, colourVars, routeVars,
                   cleanupVars>>

NextPath == SanitizeRelativePath

SpecPath == InitPath /\ [][NextPath]_vars

\* the segments of a path: what stands between separators, "/" or "\",
\* empty pieces aside
RECURSIVE PiecesFrom(_, _, _, _)
PiecesFrom(s, i, piece, done) ==
    LET closed == IF piece = <<>> THEN done ELSE Append(done, piece)
    IN  IF i > Len(s) THEN closed
        ELSE IF s[i] \in {"/", "\\"} THEN PiecesFrom(s, i + 1, <<>>, closed)
             ELSE PiecesFrom(s, i + 1, Append(piece, s[i]), done)

PathSegments(s) == PiecesFrom(s, 1, <<>>, <<>>)

\* what stands between the "/" of the result, empty pieces kept
ResultSegments(s) == SplitSlash(s)

SegmentsKept(ins, outs) ==
    /\ Len(outs) = Len(ins)
    /\ \A i \in 1..Len(ins) :
          IF i = Len(ins)
          THEN outs[i] = sanitize_filename(ins[i])
          ELSE /\ outs[i] = sanitize_folder_segment(ins[i])
               /\ outs[i] # <<>>
               /\ \A k \in 1..Len(outs[i]) :
                      IsAlnum(outs[i][k]) \/ outs[i][k] \in {" ", "_", "-"}

\* C25, as stated: the result has as many segments as the input, in the
\* same order; the last is sanitize_filename of the input's last, each
\* other one a non-empty name of alphanumerics, space, underscore and hyphen.
C25_SegmentsPreserved ==
    pathPc = "done" => SegmentsKept(PathSegments(pathId), ResultSegments(pathClean))

\* C25, amended: that holds for every path with at least one segment; a
\* path with none (empty, or separators only) gives the one segment
\* "newsletter.html".
C25_SegmentsPreservedOrDefault ==
    pathPc = "done" =>
        IF PathSegments(pathId) = <<>>
        THEN pathClean = DEFAULT_BASENAME \o DEFAULT_EXTENSION
        ELSE SegmentsKept(PathSegments(pathId), ResultSegments(pathClean))

\* a path of three segments whose first decodes to a separator has been
\* sanitized
C25_Witness ==
    /\ pathPc = "done"
    /\ Len(PathSegments(pathId)) >= 2
    /\ HasChar(unquote(PathSegments(pathId)[1]), "/")

\* what follows the last separator, "/" or "\", of a decoded name
AfterLastSeparator(s) ==
    LET seps == {i \in 1..Len(s) : s[i] \in {"/", "\\"}}
        cut == IF seps = {} THEN 0 ELSE CHOOSE i \in seps : \A j \in seps : j <= i
    IN  SubSeq(s, cut + 1, Len(s))

\* the names that are empty after decoding, taking the last segment and
\* trimming
EmptyAfterTrimming(s) ==
    \A i \in 1..Len(AfterLastSeparator(unquote(s))) :
        IsSpace(AfterLastSeparator(unquote(s))[i])

\* C26: sanitize_filename returns "newsletter.html" for every name that is
\* empty after decoding, taking the last path segment and trimming: the
\* empty name, blanks only, and a path that ends in a separator.
C26_DefaultName ==
    (spc # "start" /\ EmptyAfterTrimming(raw)) =>
        once = <<"n", "e", "w", "s", "l", "e", "t", "t", "e", "r",
                 ".", "h", "t", "m", "l">>

\* a path that ends in a separator behind a name has been sanitized
C26_Witness ==
    /\ spc = "once"
    /\ Len(raw) >= 2
    /\ raw[1] = "x"
    /\ raw[Len(raw)] \in {"/", "\\"}
    /\ EmptyAfterTrimming(raw)

(***************************************************************************)
(* Cleanup runs: cleanup_directory of utils/cleanup_filenames.py on one    *)
(* directory, first as a dry run and then live.  os.walk lists the names   *)
(* of a directory once, before the loop visits them; the order of the      *)
(* names is the file system's, so the loop visits them in any order.       *)
(* Files stay in their directory, so one directory shows what happens in   *)
(* each.                                                                   *)
(***************************************************************************)
\* the file names a directory may hold: two percent-encoded names with the
\* same clean name, that clean name, a lone "%" and a name without "%"
CleanupNames ==
    {<<"x", "%", "2", "0", "x">>,
     <<"x", "%", "2", "0", "x", ".", "h", "t", "m", "l">>,
     <<"x", " ", "x", ".", "h", "t", "m", "l">>,
     <<"%">>,
     <<"x", ".", "h", "t", "m", "l">>}

\* sanitize_filename of cleanup_filenames.py, the copy of the one in storage.py
CleanNames == [filename \in CleanupNames |-> sanitize_filename(filename)]

RenameOutcomes == {"renamed", "OSError"}

InitCleanup ==
    /\ tree \in SUBSET CleanupNames
    /\ treeBefore = tree
    /\ pending = tree
    /\ stats = NoStats
    /\ dryStats = NoStats
    /\ phase = "dry"
    /\ SanitizeIdle
    /\ JoinIdle
    /\ StorageIdle
    /\ ListIdle
    /\ CloudIdle
    /\ ConvertIdle
    /\ ComposeIdle
    /\ ColourIdle
    /\ RouteIdle
    /\ PathIdle

\* the statistics and the directory after one pass of the loop body
visit_file(names, st, filename, dry_run, outcome) ==
    LET counted == [st EXCEPT !.total_files = @ + 1]
        clean_filename == CleanNames[filename]
    IN  IF ~HasChar(filename, "%")
        THEN [stats |-> counted, tree |-> names]
        ELSE IF clean_filename = filename \/ clean_filename \in names
             THEN [stats |-> [counted EXCEPT !.skipped = @ + 1], tree |-> names]
             ELSE IF dry_run
                  THEN [stats |-> [counted EXCEPT !.renamed_files = @ + 1],
                        tree |-> names]
                  ELSE IF outcome = "renamed"
                       THEN [stats |-> [counted EXCEPT !.renamed_files = @ + 1],
                             tree |-> (names \ {filename}) \cup {clean_filename}]
                       ELSE [stats |-> [counted EXCEPT !.errors = @ + 1],
                             tree |-> names]

\* one pass of the loop over the files of the directory
VisitFile ==
    /\ phase \in {"dry", "live"}
    /\ \E filename \in pending, outcome \in RenameOutcomes :
          LET out == visit_file(tree, stats, filename, phase = "dry", outcome)
          IN  /\ stats' = out.stats
              /\ tree' = out.tree
              /\ pending' = pending \ {filename}
    /\ UNCHANGED <<treeBefore, dryStats, phase, sanitizeVars, joinVars, storageVars,
                   listVars, cloudVars, convertVars, composeVars, colourVars,
                   routeVars, pathVars>>

\* the dry run returns its statistics; the live run starts on the same
\* directory
DryRunReturns ==
    /\ phase = "dry"
    /\ pending = {}
    /\ dryStats' = stats
    /\ stats' = NoStats
    /\ pending' = tree
    /\ phase' = "live"
    /\ UNCHANGED <<tree, treeBefore, sanitizeVars, joinVars, storageVars, listVars,
                   cloudVars, convertVars, composeVars, colourVars, routeVars,
                   pathVars>>

LiveRunReturns ==
    /\ phase = "live"
    /\ pending = {}
    /\ phase' = "done"
    /\ UNCHANGED <<tree, treeBefore, pending, stats, dryStats, sanitizeVars, joinVars,
                   storageVars, listVars, cloudVars, convertVars, composeVars,
                   colourVars, routeVars, pathVars>>

NextCleanup == VisitFile \/ DryRunReturns \/ LiveRunReturns

SpecCleanup == InitCleanup /\ [][NextCleanup]_vars

\* C27: the dry run changes no file, and the renamed and skipped counts it
\* returns are those of the live run on the same directory (every rename of
\* the live run succeeding), names with the same clean name included.
C27_DryRunFaithful ==
    /\ phase = "dry" => tree = treeBefore
    /\ (phase = "done" /\ stats.errors = 0) =>
           /\ dryStats.renamed_files = stats.renamed_files
           /\ dryStats.skipped = stats.skipped

\* C28: after every upload, save and delete the storage root is still a
\* directory; delete prunes only empty directories beneath it.
C28_RootKept ==
    last.kind \in {"upload", "save", "delete"} => <<>> \in dirs

\* C29: a download that comes right after a successful save of the same
\* file id returns the content that was saved.
C29_SaveThenDownload ==
    (/\ prev.kind = "save"
     /\ prev.ok
     /\ last.kind = "download"
     /\ last.arg = prev.arg)
        => /\ last.ok
           /\ last.raised = ""
           /\ last.content = prev.content

\* C30: after a successful delete, a download of the same file id that
\* comes right after it raises FileNotFoundError, and a delete of the same
\* file id that comes right after it returns False.
C30_DeletedIsGone ==
    (prev.kind = "delete" /\ prev.ok /\ last.arg = prev.arg)
        => /\ last.kind = "download" => last.raised = "FileNotFoundError"
           /\ last.kind = "delete" => ~last.ok

====
